---- MODULE Spec2Model ----
(***************************************************************************)
(* Model of the benchmark pipeline of the repository:                      *)
(*   bench/run_bench.py  (load driver, statistics, result file)            *)
(*   bench/compare.py    (regression comparison against a baseline)        *)
(*   remediation/watcher.py  (remediation plan, script, exit status)       *)
(*                                                                         *)
(* Units.  Python floats are modelled as scaled integers:                  *)
(*   latencies of single requests     thousandths of a millisecond         *)
(*   values after round(x, 2)         hundredths                           *)
(*   error_rate after round(x, 4)     ten-thousandths                      *)
(*   wall-clock duration of a run     milliseconds                         *)
(* Output to the terminal (progress lines, print_results and               *)
(* print_comparison) is not state and is left out, except that             *)
(* print_results fails on a summary that lacks the keys it reads, and that *)
(* the action list the watcher's print_report prints is recorded.          *)
(* Prompts are well-formed (each                                           *)
(* has a "prompt" key), so that send_request always reaches its try block. *)
(* The input values are chosen so that no value is a rounding tie that a   *)
(* binary double cannot represent exactly (for those, round() depends on   *)
(* the double's error); representable ties (x.125) are rounded half-even   *)
(* as Python does.                                                         *)
(* compare.py compares quotients and products of doubles with thresholds:  *)
(* where the decimal values of two documents sit exactly on a threshold    *)
(* the doubles are computed (binary64, round to nearest even); elsewhere   *)
(* the scaled integers give the same answer as the doubles.                *)
(***************************************************************************)
EXTENDS Integers, Sequences, FiniteSets, TLC

\* ---------------------------------------------------------------- bounds
MaxRequests == 3
MaxConcurrency == 3
MaxPrompts == 2
\* reductions of one outcome list, and seconds the clock advances meanwhile
MaxReductions == 2
\* analysis passes, and scripts generated, on one RemediationWatcher
MaxAnalyses == 2

\* -n / -c are parsed with type=int: zero and negative values reach
\* run_benchmark unchecked.  The prompts file may hold no prompt at all.
NumRequestsDomain == -1 .. MaxRequests
ConcurrencyDomain == -1 .. MaxConcurrency
PromptCountDomain == 0 .. MaxPrompts

\* Latencies (1/1000 ms) a successful round trip may take.
SuccessLatencies == {1004, 3125}
\* tokens_per_sec values of a 200 response (0: field absent, .get default)
TokenRates == {0, 40}
\* Wall-clock duration of the whole run, in ms (0: clock did not advance)
Durations == {0, 1500}
\* wall-clock times (seconds) at which a summary is built
Timestamps == {0, 1}

\* Outcomes of requests.post as send_request sees them.
Responses ==
    [kind : {"ok"}, latency : SuccessLatencies, status : {200}, tokens : TokenRates]
    \cup [kind : {"http"}, latency : {5006}, status : {500}, tokens : {0}]
    \cup [kind : {"timeout"}, latency : {30000}, status : {0}, tokens : {0}]
    \cup [kind : {"exception"}, latency : {7}, status : {0}, tokens : {0}]

\* Outcomes of the pre-flight GET /healthz
HealthOutcomes == {"ok", "non200", "unreachable"}

\* ------------------------------------------------------- pure helpers
\* round() of the quotient a / b to an integer, ties to even (a >= 0, b > 0)
RoundDiv(a, b) ==
    LET q == a \div b
        r == a % b
    IN  IF 2 * r < b THEN q
        ELSE IF 2 * r > b THEN q + 1
        ELSE IF q % 2 = 0 THEN q ELSE q + 1

\* round(x, 2) of a value given in thousandths, result in hundredths
Round2(x) == RoundDiv(x, 10)

RECURSIVE SumSeq(_)
SumSeq(s) == IF s = <<>> THEN 0 ELSE Head(s) + SumSeq(Tail(s))

\* list.sort(): ascending and stable.  Element k of the list goes to the
\* position that counts the smaller elements and the equal ones before it.
SortPos(s, k) ==
    Cardinality({j \in 1 .. Len(s) : s[j] < s[k] \/ (s[j] = s[k] /\ j < k)}) + 1

SortPlace(s, pos) ==
    [i \in 1 .. Len(s) |-> s[CHOOSE k \in 1 .. Len(s) : pos[k] = i]]

SortValue(s) ==
    CHOOSE r \in {SortPlace(s, pos) : pos \in {[k \in 1 .. Len(s) |-> SortPos(s, k)]}} :
        TRUE

\* (the list is evaluated once and bound to v)
SortAsc(s) == CHOOSE r \in {SortValue(v) : v \in {s}} : TRUE

MapLatency(s) == [k \in 1 .. Len(s) |-> s[k].latency_ms]
MapTokens(s) == [k \in 1 .. Len(s) |-> s[k].tokens_per_sec]

\* ---------------------------------------------------------------- state
VARIABLES
    pc,                 \* position of run_bench.main
    num_requests,       \* args.num_requests
    concurrency,        \* args.concurrency
    prompts,            \* number of prompts loaded (the prompt list 0..k-1)
    requests_to_send,   \* list of <<request_id, prompt index>>
    results,            \* run_benchmark's list of outcomes
    queue,              \* pool: request ids submitted and not yet started
    inflight,           \* request ids a thread holds: taken from the queue, and
                        \* in send_request once the id is in dispatchLog
    futures,            \* pool: request id -> outcome of a finished future
    collected,          \* pool: request ids as_completed has yielded
    dispatchLog,        \* history: request ids in the order send_request was entered
    sent,               \* history: request id -> the outcome send_request returned
    benchmark_results,  \* <<>> or <<summary returned by run_benchmark>>
    statCalls,          \* history: statistics functions called, with input sizes
    outfile,            \* writes to args.output, in order
    error,              \* exception that ended the process, "" if none
    exitCode            \* process exit status, -1 while running

benchVars == <<pc, num_requests, concurrency, prompts, requests_to_send, results,
               queue, inflight, futures, collected, dispatchLog, sent,
               benchmark_results, statCalls, outfile, error, exitCode>>

\* compare.py
VARIABLES
    cmp_pc,         \* position of compare.main
    set_baseline,   \* args.set_baseline
    current_file,   \* args.current on disk: <<>> (missing) or <<document>>
    baseline_file,  \* args.baseline on disk: <<>> (missing) or <<document>>
    current_layout, \* how the text of args.current is laid out, "none" if missing
    baseline_layout,\* how the text of args.baseline is laid out, "none" if missing
    current,        \* <<>> or <<the loaded current results>>
    baseline,       \* <<>> or <<the loaded baseline results>>
    passed,         \* compare_results' first result
    issues,         \* compare_results' second result
    cmp_exit        \* exit status of compare.py, -1 while running

cmpVars == <<cmp_pc, set_baseline, current_file, baseline_file, current_layout,
             baseline_layout, current, baseline, passed, issues, cmp_exit>>

\* remediation/watcher.py
VARIABLES
    w_pc,            \* position of watcher.main
    results_file,    \* args.results on disk: <<>> (missing) or <<document>>
    generate_script_to, \* args.generate_script was given
    auto_execute,    \* args.auto_execute
    dry_run,         \* args.dry_run
    w_results,       \* self.results: <<>> (None) or <<the loaded document>>
    actions,         \* self.actions
    report,          \* the action lists print_report has printed, in order
    script_file,     \* writes to the file args.generate_script, in order
    tmp_script,      \* writes to /tmp/auto_remediation.sh, in order
    subprocess_runs, \* the scripts subprocess.run was called on, in order
    w_exit           \* exit status of watcher.py, -1 while running

watchVars == <<w_pc, results_file, generate_script_to, auto_execute, dry_run,
               w_results, actions, report, script_file, tmp_script,
               subprocess_runs, w_exit>>

\* the reduction of run_benchmark (lines 156-215) applied to a given outcome
\* list more than once
VARIABLES
    total_duration_s,  \* the duration (ms) given to every reduction
    wall_clock,        \* the wall clock, in seconds
    summaries          \* the summaries built so far, in order

aggVars == <<total_duration_s, wall_clock, summaries>>

nonBenchVars == <<cmpVars, watchVars, aggVars>>
nonCmpVars == <<benchVars, watchVars, aggVars>>
nonWatchVars == <<benchVars, cmpVars, aggVars>>
nonAggVars == <<benchVars, cmpVars, watchVars>>

vars == <<benchVars, cmpVars, watchVars, aggVars>>

\* no repeated reduction is under way
AggIdle ==
    /\ total_duration_s = 0
    /\ wall_clock = 0
    /\ summaries = <<>>

\* watcher.py has not been started
WatchIdle ==
    /\ w_pc = "idle"
    /\ results_file = <<>>
    /\ generate_script_to = FALSE
    /\ auto_execute = FALSE
    /\ dry_run = FALSE
    /\ w_results = <<>>
    /\ actions = <<>>
    /\ report = <<>>
    /\ script_file = <<>>
    /\ tmp_script = <<>>
    /\ subprocess_runs = <<>>
    /\ w_exit = -1

\* compare.py has not been started
CmpIdle ==
    /\ cmp_pc = "idle"
    /\ set_baseline = FALSE
    /\ current_file = <<>>
    /\ baseline_file = <<>>
    /\ current_layout = "none"
    /\ baseline_layout = "none"
    /\ current = <<>>
    /\ baseline = <<>>
    /\ passed = TRUE
    /\ issues = <<>>
    /\ cmp_exit = -1


\* ------------------------------------------------------- send_request
\* The outcome record send_request returns for one response of the service.
\* Every exception of the round trip is caught and becomes a failed outcome.
send_request(request_id, resp) ==
    IF resp.kind = "ok" THEN
        [request_id |-> request_id, success |-> TRUE, latency_ms |-> resp.latency,
         status_code |-> resp.status, tokens_per_sec |-> resp.tokens, error |-> "None"]
    ELSE IF resp.kind = "http" THEN
        [request_id |-> request_id, success |-> FALSE, latency_ms |-> resp.latency,
         status_code |-> resp.status, tokens_per_sec |-> 0, error |-> "HTTP"]
    ELSE IF resp.kind = "timeout" THEN
        [request_id |-> request_id, success |-> FALSE, latency_ms |-> resp.latency,
         status_code |-> 0, tokens_per_sec |-> 0, error |-> "Request timeout"]
    ELSE
        [request_id |-> request_id, success |-> FALSE, latency_ms |-> resp.latency,
         status_code |-> 0, tokens_per_sec |-> 0, error |-> "exception"]

\* ------------------------------------------------- statistics (run_benchmark)
IsSuccess(r) == r.success
IsFailure(r) == ~r.success

successful_results(res) == SelectSeq(res, IsSuccess)
failed_results(res) == SelectSeq(res, IsFailure)

\* latencies = [r["latency_ms"] for r in successful_results]; latencies.sort()
latencies(res) == SortAsc(MapLatency(successful_results(res)))

\* int(len(latencies) * q), q given in percent
PercentileIdx(n, q) == (n * q) \div 100

\* (variant: the other nearest-rank convention, index ceil(n * q) - 1)
PercentileAtCeilRank(lat, q) ==
    LET idx == (Len(lat) * q + 99) \div 100 - 1
    IN  IF idx < Len(lat) THEN lat[idx + 1] ELSE lat[Len(lat)]

\* latencies[idx] if idx < len(latencies) else latencies[-1]   (0-based idx)
PercentileAt(lat, q) ==
    LET idx == PercentileIdx(Len(lat), q)
    IN  IF idx < Len(lat) THEN lat[idx + 1] ELSE lat[Len(lat)]

\* lines 177-180: the locals p95_latency and p99_latency
p95_latency(res) == PercentileAt(latencies(res), 95)
p99_latency(res) == PercentileAt(latencies(res), 99)

\* statistics.median, doubled so that the mean of the two middle values of an
\* even-sized list stays an integer
Median2(lat) ==
    LET n == Len(lat)
    IN  IF n % 2 = 1 THEN 2 * lat[(n + 1) \div 2]
        ELSE lat[n \div 2] + lat[n \div 2 + 1]

\* round(statistics.stdev(latencies), 2), in hundredths: the sample standard
\* deviation is sqrt(V / D) thousandths with the integers V and D below
StdevRound2(lat) ==
    LET n == Len(lat)
        S == SumSeq(lat)
        V == SumSeq([k \in 1 .. n |-> (n * lat[k] - S) * (n * lat[k] - S)])
        D == n * n * (n - 1)
    IN  CHOOSE r \in 0 .. (lat[n] \div 10 + 1) :
            /\ (r = 0 \/ (2 * r - 1) * (2 * r - 1) * 25 * D <= V)
            /\ V < (2 * r + 1) * (2 * r + 1) * 25 * D

ErrorsOf(failed) ==
    [k \in 1 .. Len(failed) |->
        [request_id |-> failed[k].request_id, error |-> failed[k].error]]

\* (variant: the all-failed branch tests the result list, "if not results")
AllFailedNoResults(res) == res = <<>>

\* "if not successful_results": the all-failed branch is taken
AllFailed(res) == successful_results(res) = <<>>

\* the dictionary returned when no request succeeded
DegenerateSummary(res, n) ==
    [error |-> "All requests failed",
     total_requests |-> n,
     successful_requests |-> 0,
     failed_requests |-> Len(failed_results(res)),
     error_rate |-> 10000]

\* (variant: the error rate denominated by the successful requests)
ErrorRateOverSuccessful(res, n) ==
    RoundDiv(Len(failed_results(res)) * 10000, Len(successful_results(res)))

\* error_rate = len(failed_results) / num_requests, then round(error_rate, 4)
ErrorRateRound4(res, n) == RoundDiv(Len(failed_results(res)) * 10000, n)

\* throughput_rps = len(successful) / total_duration_s if total_duration_s > 0
\* else 0, then round(throughput_rps, 2); d in ms, result in hundredths
ThroughputRound2(res, d) ==
    IF d > 0 THEN RoundDiv(Len(successful_results(res)) * 1000 * 100, d) ELSE 0

\* time.strftime("%Y-%m-%d %H:%M:%S"): the clock to the second, as text
strftime(now) == <<"%Y-%m-%d %H:%M:%S", now>>

\* the benchmark_results dictionary, lat being the sorted latencies and now
\* the wall clock (seconds) that time.strftime formats at line 192
NormalSummaryOf(res, n, c, d, lat, now) ==
    LET succ == successful_results(res)
    IN  [timestamp |-> strftime(now),
         base_url |-> "url",
         total_requests |-> n,
         successful_requests |-> Len(succ),
         failed_requests |-> Len(failed_results(res)),
         concurrency |-> c,
         total_duration_s |-> RoundDiv(d, 10),
         throughput_rps |-> ThroughputRound2(res, d),
         error_rate |-> ErrorRateRound4(res, n),
         latency_stats |->
            [min_ms |-> Round2(lat[1]),
             max_ms |-> Round2(lat[Len(lat)]),
             mean_ms |-> RoundDiv(SumSeq(lat), 10 * Len(lat)),
             median_ms |-> RoundDiv(Median2(lat), 20),
             p50_ms |-> RoundDiv(Median2(lat), 20),
             p95_ms |-> Round2(PercentileAt(lat, 95)),
             p99_ms |-> Round2(PercentileAt(lat, 99)),
             stdev_ms |-> IF Len(lat) > 1 THEN StdevRound2(lat) ELSE 0],
         avg_tokens_per_sec |-> RoundDiv(SumSeq(MapTokens(succ)) * 100, Len(succ)),
         errors |-> ErrorsOf(failed_results(res))]

\* lines 172-213 (latencies is computed and sorted once)
NormalSummary(res, n, c, d, now) ==
    CHOOSE sm \in {NormalSummaryOf(res, n, c, d, lat, now) : lat \in {latencies(res)}} : TRUE

\* lines 158-215 of run_benchmark
Summarize(res, n, c, d, now) ==
    IF AllFailed(res) THEN DegenerateSummary(res, n) ELSE NormalSummary(res, n, c, d, now)

\* the statistics functions lines 172-211 call, with the size of their input
StatCallsOf(res) ==
    IF AllFailed(res) THEN <<>>
    ELSE LET n == Len(successful_results(res))
         IN  <<[fn |-> "median", n |-> n], [fn |-> "mean", n |-> n],
               [fn |-> "min", n |-> n], [fn |-> "max", n |-> n],
               [fn |-> "mean", n |-> n]>>
             \o (IF n > 1 THEN <<[fn |-> "stdev", n |-> n]>> ELSE <<>>)

\* keys print_results reads with results[...]
PrintKeys == {"timestamp", "base_url", "total_requests", "successful_requests",
              "failed_requests", "concurrency", "total_duration_s",
              "throughput_rps", "error_rate", "latency_stats",
              "avg_tokens_per_sec", "errors"}


\* ---------------------------------------------------------------- Init
BenchInit ==
    /\ pc = "health"
    /\ num_requests \in NumRequestsDomain
    /\ concurrency \in ConcurrencyDomain
    /\ prompts = 0
    /\ requests_to_send = <<>>
    /\ results = <<>>
    /\ queue = <<>>
    /\ inflight = {}
    /\ futures = {}
    /\ collected = {}
    /\ dispatchLog = <<>>
    /\ sent = {}
    /\ benchmark_results = <<>>
    /\ statCalls = <<>>
    /\ outfile = <<>>
    /\ error = ""
    /\ exitCode = -1

Exit(code) == /\ pc' = "done"
              /\ exitCode' = code
              /\ error' = error

Raise(exc) == /\ pc' = "crashed"
              /\ exitCode' = 1
              /\ error' = exc

\* ------------------------------------------------------------ main, part 1
\* main: GET /healthz; an unreachable service ends the process with status 1,
\* a non-200 answer is only a warning
HealthCheck ==
    /\ pc = "health"
    /\ \E h \in HealthOutcomes :
          IF h = "unreachable" THEN Exit(1)
          ELSE /\ pc' = "load_prompts"
               /\ UNCHANGED <<error, exitCode>>
    /\ UNCHANGED <<num_requests, concurrency, prompts, requests_to_send, results,
                   queue, inflight, futures, collected, dispatchLog, sent,
                   benchmark_results, statCalls, outfile>>
    /\ UNCHANGED nonBenchVars

\* main: the prompts file must exist; load_prompts keeps its non-blank lines
LoadPrompts ==
    /\ pc = "load_prompts"
    /\ \E exists \in BOOLEAN, k \in PromptCountDomain :
          IF ~exists THEN Exit(1) /\ prompts' = prompts
          ELSE /\ prompts' = k
               /\ pc' = "generate"
               /\ UNCHANGED <<error, exitCode>>
    /\ UNCHANGED <<num_requests, concurrency, requests_to_send, results,
                   queue, inflight, futures, collected, dispatchLog, sent,
                   benchmark_results, statCalls, outfile>>
    /\ UNCHANGED nonBenchVars

\* ------------------------------------------------------------ run_benchmark
\* range(num_requests)
RangeLen(n) == IF n > 0 THEN n ELSE 0

\* (variant: the branch test written as "concurrency < 1")
SequentialModeBelowOne(c) == c < 1

\* "concurrency == 1": the sequential branch is taken
SequentialMode(c) == c = 1

\* lines 111-115: the request list, cycling through the prompts; with an
\* empty prompt list the first i % len(prompts) raises ZeroDivisionError
GenerateRequests ==
    /\ pc = "generate"
    /\ IF RangeLen(num_requests) > 0 /\ prompts = 0
       THEN /\ Raise("ZeroDivisionError")
            /\ UNCHANGED requests_to_send
       ELSE /\ requests_to_send' =
                  [i \in 1 .. RangeLen(num_requests) |-> <<i, (i - 1) % prompts>>]
            /\ pc' = IF SequentialMode(concurrency) THEN "sequential" ELSE "pool_create"
            /\ UNCHANGED <<error, exitCode>>
    /\ UNCHANGED <<num_requests, concurrency, prompts, results,
                   queue, inflight, futures, collected, dispatchLog, sent,
                   benchmark_results, statCalls, outfile>>
    /\ UNCHANGED nonBenchVars

\* line 123-124: the loop enters send_request for the next request of the list
SeqDispatch ==
    /\ pc = "sequential"
    /\ inflight = {}
    /\ Len(results) < Len(requests_to_send)
    /\ LET id == requests_to_send[Len(results) + 1][1]
       IN  /\ inflight' = {id}
           /\ dispatchLog' = Append(dispatchLog, id)
    /\ UNCHANGED <<pc, num_requests, concurrency, prompts, requests_to_send, results,
                   queue, futures, collected, sent,
                   benchmark_results, statCalls, outfile, error, exitCode>>
    /\ UNCHANGED nonBenchVars

\* line 124-125: send_request returns and its outcome is appended
SeqReturn ==
    /\ pc = "sequential"
    /\ \E id \in inflight, resp \in Responses :
          LET o == send_request(id, resp)
          IN  /\ results' = Append(results, o)
              /\ sent' = sent \cup {o}
              /\ inflight' = inflight \ {id}
    /\ UNCHANGED <<pc, num_requests, concurrency, prompts, requests_to_send,
                   queue, futures, collected, dispatchLog,
                   benchmark_results, statCalls, outfile, error, exitCode>>
    /\ UNCHANGED nonBenchVars

\* line 133: ThreadPoolExecutor(max_workers=concurrency) raises ValueError
\* for max_workers <= 0
PoolCreate ==
    /\ pc = "pool_create"
    /\ IF concurrency <= 0 THEN Raise("ValueError")
       ELSE /\ pc' = IF requests_to_send = <<>> THEN "collect" ELSE "submit"
            /\ UNCHANGED <<error, exitCode>>
    /\ UNCHANGED <<num_requests, concurrency, prompts, requests_to_send, results,
                   queue, inflight, futures, collected, dispatchLog, sent,
                   benchmark_results, statCalls, outfile>>
    /\ UNCHANGED nonBenchVars

Submitted == Len(queue) + Cardinality(inflight) + Cardinality(futures)

\* lines 134-139: executor.submit for the next request of the list
Submit ==
    /\ pc = "submit"
    /\ Submitted < Len(requests_to_send)
    /\ queue' = Append(queue, requests_to_send[Submitted + 1][1])
    /\ pc' = IF Submitted + 1 = Len(requests_to_send) THEN "collect" ELSE "submit"
    /\ UNCHANGED <<num_requests, concurrency, prompts, requests_to_send, results,
                   inflight, futures, collected, dispatchLog, sent,
                   benchmark_results, statCalls, outfile, error, exitCode>>
    /\ UNCHANGED nonBenchVars

\* the request ids for which send_request has been entered
Entered == {dispatchLog[k] : k \in 1 .. Len(dispatchLog)}

\* a pool thread (at most max_workers of them) takes the oldest queued work
\* item
WorkerTake ==
    /\ pc \in {"submit", "collect"}
    /\ queue /= <<>>
    /\ Cardinality(inflight) < concurrency
    /\ inflight' = inflight \cup {Head(queue)}
    /\ queue' = Tail(queue)
    /\ UNCHANGED <<pc, num_requests, concurrency, prompts, requests_to_send, results,
                   futures, collected, dispatchLog, sent,
                   benchmark_results, statCalls, outfile, error, exitCode>>
    /\ UNCHANGED nonBenchVars

\* a pool thread runs the work item it took: send_request is entered.  The
\* threads run independently, so a later item can be entered first.
WorkerEnter ==
    /\ pc \in {"submit", "collect"}
    /\ \E id \in inflight \ Entered :
          dispatchLog' = Append(dispatchLog, id)
    /\ UNCHANGED <<pc, num_requests, concurrency, prompts, requests_to_send, results,
                   queue, inflight, futures, collected, sent,
                   benchmark_results, statCalls, outfile, error, exitCode>>
    /\ UNCHANGED nonBenchVars

\* (variant: a failed request is queued again instead of being reported)
WorkerCompleteRetry ==
    /\ pc \in {"submit", "collect"}
    /\ \E id \in inflight \cap Entered, resp \in Responses :
          LET o == send_request(id, resp)
          IN  /\ inflight' = inflight \ {id}
              /\ sent' = sent \cup {o}
              /\ IF o.success
                 THEN futures' = futures \cup {o} /\ queue' = queue
                 ELSE futures' = futures /\ queue' = Append(queue, id)
    /\ UNCHANGED <<pc, num_requests, concurrency, prompts, requests_to_send, results,
                   collected, dispatchLog,
                   benchmark_results, statCalls, outfile, error, exitCode>>
    /\ UNCHANGED nonBenchVars

\* send_request returns in a pool thread: the future holds its outcome
WorkerComplete ==
    /\ pc \in {"submit", "collect"}
    /\ \E id \in inflight \cap Entered, resp \in Responses :
          LET o == send_request(id, resp)
          IN  /\ futures' = futures \cup {o}
              /\ sent' = sent \cup {o}
              /\ inflight' = inflight \ {id}
    /\ UNCHANGED <<pc, num_requests, concurrency, prompts, requests_to_send, results,
                   queue, collected, dispatchLog,
                   benchmark_results, statCalls, outfile, error, exitCode>>
    /\ UNCHANGED nonBenchVars

\* lines 142-145: as_completed yields a finished future, in no fixed order
Collect ==
    /\ pc = "collect"
    /\ \E o \in futures :
          /\ o.request_id \notin collected
          /\ results' = Append(results, o)
          /\ collected' = collected \cup {o.request_id}
    /\ UNCHANGED <<pc, num_requests, concurrency, prompts, requests_to_send,
                   queue, inflight, futures, dispatchLog, sent,
                   benchmark_results, statCalls, outfile, error, exitCode>>
    /\ UNCHANGED nonBenchVars

\* both loops have ended: every request of the list has its outcome in results
LoopsDone ==
    \/ /\ pc = "sequential"
       /\ inflight = {}
       /\ Len(results) = Len(requests_to_send)
    \/ /\ pc = "collect"
       /\ Cardinality(collected) = Len(requests_to_send)

\* lines 156-215: statistics and the returned dictionary.  statistics.median
\* raises StatisticsError on an empty list.
Aggregate ==
    /\ LoopsDone
    /\ IF ~AllFailed(results) /\ latencies(results) = <<>>
       THEN /\ statCalls' = <<[fn |-> "median", n |-> 0]>>
            /\ Raise("StatisticsError")
            /\ UNCHANGED benchmark_results
       ELSE /\ \E d \in Durations, now \in Timestamps :
                  benchmark_results' =
                      <<Summarize(results, num_requests, concurrency, d, now)>>
            /\ statCalls' = StatCallsOf(results)
            /\ pc' = "print"
            /\ UNCHANGED <<error, exitCode>>
    /\ UNCHANGED <<num_requests, concurrency, prompts, requests_to_send, results,
                   queue, inflight, futures, collected, dispatchLog, sent,
                   outfile>>
    /\ UNCHANGED nonBenchVars

\* ------------------------------------------------------------ main, part 2
\* print_results(results) reads the keys of the full summary; a missing key
\* raises KeyError
PrintResults ==
    /\ pc = "print"
    /\ IF PrintKeys \subseteq DOMAIN benchmark_results[1]
       THEN /\ pc' = "save"
            /\ UNCHANGED <<error, exitCode>>
       ELSE Raise("KeyError")
    /\ UNCHANGED <<num_requests, concurrency, prompts, requests_to_send, results,
                   queue, inflight, futures, collected, dispatchLog, sent,
                   benchmark_results, statCalls, outfile>>
    /\ UNCHANGED nonBenchVars

\* lines 324-325: json.dump(results) into args.output
SaveResults ==
    /\ pc = "save"
    /\ outfile' = Append(outfile, benchmark_results[1])
    /\ pc' = "exit_check"
    /\ UNCHANGED <<num_requests, concurrency, prompts, requests_to_send, results,
                   queue, inflight, futures, collected, dispatchLog, sent,
                   benchmark_results, statCalls, error, exitCode>>
    /\ UNCHANGED nonBenchVars

\* lines 330-332: exit status 1 for an error rate above 5%
ExitCheck ==
    /\ pc = "exit_check"
    /\ IF benchmark_results[1].error_rate > 500 THEN Exit(1) ELSE Exit(0)
    /\ UNCHANGED <<num_requests, concurrency, prompts, requests_to_send, results,
                   queue, inflight, futures, collected, dispatchLog, sent,
                   benchmark_results, statCalls, outfile>>
    /\ UNCHANGED nonBenchVars

Next ==
    \/ HealthCheck
    \/ LoadPrompts
    \/ GenerateRequests
    \/ SeqDispatch
    \/ SeqReturn
    \/ PoolCreate
    \/ Submit
    \/ WorkerTake
    \/ WorkerEnter
    \/ WorkerComplete
    \/ Collect
    \/ Aggregate
    \/ PrintResults
    \/ SaveResults
    \/ ExitCheck

Init == BenchInit /\ CmpIdle /\ WatchIdle /\ AggIdle

Spec == Init /\ [][Next]_vars


\* ------------------------------------------------ statistics on longer runs
\* The state a sequential run is in when its loop has ended, for runs long
\* enough that the 95th and 99th percentile differ from the maximum.
\* A run is given by the number of its requests that failed and that
\* succeeded with a high, a middle and a low latency.
StatsSizes == {1, 2, 3, 20, 21, 100, 101}
StatsHigh == {0, 1, 2, 6}
StatsMid == {0, 1, 4, 5}
StatsFail == {0, 2}
StatsShapes ==
    {sh \in [n : StatsSizes, high : StatsHigh, mid : StatsMid, fail : StatsFail] :
        sh.high + sh.mid <= sh.n}

\* latencies (1/1000 ms) of these runs: low, middle, high
StatsLatencies == <<1004, 1014, 1026>>
LatLow == StatsLatencies[1]
LatMid == StatsLatencies[2]
LatHigh == StatsLatencies[3]

ShapeResponse(sh, i) ==
    IF i <= sh.high
    THEN [kind |-> "ok", latency |-> LatHigh, status |-> 200, tokens |-> 40]
    ELSE IF i <= sh.high + sh.fail
    THEN [kind |-> "timeout", latency |-> 30000, status |-> 0, tokens |-> 0]
    ELSE IF i <= sh.high + sh.fail + sh.mid
    THEN [kind |-> "ok", latency |-> LatMid, status |-> 200, tokens |-> 40]
    ELSE [kind |-> "ok", latency |-> LatLow, status |-> 200, tokens |-> 40]

ShapeResults(sh) ==
    [i \in 1 .. (sh.n + sh.fail) |-> send_request(i, ShapeResponse(sh, i))]

StatsInit ==
    \E sh \in StatsShapes :
        /\ CmpIdle
        /\ WatchIdle
        /\ AggIdle
        /\ pc = "sequential"
        /\ num_requests = sh.n + sh.fail
        /\ concurrency = 1
        /\ prompts = 1
        /\ requests_to_send = [i \in 1 .. (sh.n + sh.fail) |-> <<i, 0>>]
        /\ results = ShapeResults(sh)
        /\ queue = <<>>
        /\ inflight = {}
        /\ futures = {}
        /\ collected = {}
        /\ dispatchLog = [i \in 1 .. (sh.n + sh.fail) |-> i]
        /\ sent = {ShapeResults(sh)[i] : i \in 1 .. (sh.n + sh.fail)}
        /\ benchmark_results = <<>>
        /\ statCalls = <<>>
        /\ outfile = <<>>
        /\ error = ""
        /\ exitCode = -1

NextStats ==
    \/ Aggregate
    \/ PrintResults
    \/ SaveResults
    \/ ExitCheck

SpecStats == StatsInit /\ [][NextStats]_vars


\* ------------------------------------------------- repeated reduction
\* the outcome lists of up to MaxRequests requests, in request order
OutcomeLists ==
    UNION {{[i \in 1 .. k |-> send_request(i, f[i])] : f \in [1 .. k -> Responses]} :
                k \in 1 .. MaxRequests}

\* the orders in which the n requests of a run enter send_request.  A
\* sequential run keeps the request order (lines 118-125).  The pool hands
\* the work items to its c threads in request order, a thread takes the
\* next item when it has returned from send_request, and the threads that
\* hold an item enter send_request in any order: when request i enters, at
\* least i - c of the requests before it have entered (and returned).
EnterOrders(n, c) ==
    IF SequentialMode(c) THEN {[i \in 1 .. n |-> i]}
    ELSE {p \in [1 .. n -> 1 .. n] :
            /\ \A i, j \in 1 .. n : p[i] = p[j] => i = j
            /\ \A k \in 1 .. n :
                  Cardinality({m \in 1 .. k - 1 : p[m] < p[k]}) >= p[k] - c}

\* the orders in which the outcomes are appended to results: the request
\* order in a sequential run; in a pool run the order in which as_completed
\* yields the futures (lines 142-144), which is any order, since all of
\* them may be done before the first is yielded
YieldOrders(n, c) ==
    IF SequentialMode(c) THEN {[i \in 1 .. n |-> i]}
    ELSE {p \in [1 .. n -> 1 .. n] : \A i, j \in 1 .. n : p[i] = p[j] => i = j}

\* the state at line 156 of a run whose requests had the outcomes of a list
ReduceInit ==
    /\ CmpIdle
    /\ WatchIdle
    /\ pc = "reduce"
    /\ concurrency \in 1 .. MaxConcurrency
    /\ \E list \in OutcomeLists :
          /\ num_requests = Len(list)
          /\ sent = {list[i] : i \in 1 .. Len(list)}
          /\ \E entered \in EnterOrders(Len(list), concurrency),
                yielded \in YieldOrders(Len(list), concurrency) :
                /\ dispatchLog = entered
                /\ results = [i \in 1 .. Len(list) |-> list[yielded[i]]]
    /\ prompts = 1
    /\ requests_to_send = [i \in 1 .. num_requests |-> <<i, 0>>]
    /\ queue = <<>>
    /\ inflight = {}
    /\ futures = IF SequentialMode(concurrency) THEN {} ELSE sent
    /\ collected = IF SequentialMode(concurrency) THEN {} ELSE 1 .. num_requests
    /\ benchmark_results = <<>>
    /\ statCalls = <<>>
    /\ outfile = <<>>
    /\ error = ""
    /\ exitCode = -1
    /\ total_duration_s \in Durations
    /\ wall_clock = 0
    /\ summaries = <<>>

\* lines 158-215 applied to the outcome list, the requested total, the
\* duration and the concurrency of the run, at the present wall-clock time
Reduce ==
    /\ pc = "reduce"
    /\ Len(summaries) < MaxReductions
    /\ summaries' = Append(summaries,
            Summarize(results, num_requests, concurrency, total_duration_s,
                      wall_clock))
    /\ statCalls' = statCalls \o StatCallsOf(results)
    /\ UNCHANGED <<total_duration_s, wall_clock>>
    /\ UNCHANGED <<pc, num_requests, concurrency, prompts, requests_to_send, results,
                   queue, inflight, futures, collected, dispatchLog, sent,
                   benchmark_results, outfile, error, exitCode>>
    /\ UNCHANGED <<cmpVars, watchVars>>

\* a second passes
ClockTick ==
    /\ pc = "reduce"
    /\ wall_clock < MaxReductions
    /\ wall_clock' = wall_clock + 1
    /\ UNCHANGED <<total_duration_s, summaries>>
    /\ UNCHANGED nonAggVars

NextReduce ==
    \/ Reduce
    \/ ClockTick

SpecReduce == ReduceInit /\ [][NextReduce]_vars


\* =========================================================== compare.py
\* run_bench.py has not been started
BenchIdle ==
    /\ pc = "idle"
    /\ num_requests = 0
    /\ concurrency = 0
    /\ prompts = 0
    /\ requests_to_send = <<>>
    /\ results = <<>>
    /\ queue = <<>>
    /\ inflight = {}
    /\ futures = {}
    /\ collected = {}
    /\ dispatchLog = <<>>
    /\ sent = {}
    /\ benchmark_results = <<>>
    /\ statCalls = <<>>
    /\ outfile = <<>>
    /\ error = ""
    /\ exitCode = -1

\* Result documents the comparison is run on.  error_rate in 1/10000,
\* latencies and throughput in hundredths, as run_bench.py rounds them.
\* The second family of each set holds small values: against the small
\* baseline, 0.0051 is 1.5 times 0.0034, 0.77 and 0.84 are 0.70 plus 10%
\* and 20%, 1.19 and 1.61 are 1.40 minus and plus 15%, 2.21 and 2.99 are
\* 2.60 minus and plus 15%.
CurrentDocs ==
    [error_rate : {0, 75, 100, 120},
     failed_requests : {5, 7, 8},
     throughput_rps : {1600, 2300, 2400},
     latency_stats : [p50_ms : {8000, 8500, 11500, 11600},
                      p95_ms : {11000, 11500, 12000, 12100}]]
    \cup [error_rate : {0, 51},
          failed_requests : {5},
          throughput_rps : {221, 280, 299},
          latency_stats : [p50_ms : {119, 150, 161}, p95_ms : {75, 77, 84}]]
    \cup [error : {"All requests failed"}, error_rate : {10000},
          failed_requests : {5, 7, 8}]

BaselineDocs ==
    [error_rate : {0, 50},
     failed_requests : {0, 2},
     throughput_rps : {0, 2000},
     latency_stats : [p50_ms : {0, 10000}, p95_ms : {0, 10000}]]
    \cup [error_rate : {34},
          failed_requests : {0},
          throughput_rps : {260},
          latency_stats : [p50_ms : {140}, p95_ms : {70}]]
    \cup [error : {"All requests failed"}, error_rate : {10000},
          failed_requests : {0, 2}]

\* a file that json.load cannot parse
CorruptDoc == [corrupt |-> TRUE]
IsCorrupt(doc) == "corrupt" \in DOMAIN doc

\* dict.get(key, 0)
Get(d, key) == IF key \in DOMAIN d THEN d[key] ELSE 0
\* d.get("latency_stats", {}).get(key, 0)
GetStat(d, key) ==
    IF "latency_stats" \in DOMAIN d THEN Get(d.latency_stats, key) ELSE 0

\* ---------------------------------------------- binary64 arithmetic
\* Python floats are IEEE-754 doubles.  A positive double is m * 2^e with
\* 2^52 <= m < 2^53; m is kept in two limbs <<hi, lo>> = hi * 2^27 + lo so
\* that every intermediate value fits 32-bit integers.  The operators take
\* their arguments as values already computed.
Limb == 2 ^ 27
\* a mantissa is normalised (>= 2^52) when its high limb reaches 2^25
MantissaHi == 2 ^ 25

LimbDbl(a) == <<2 * a[1] + ((2 * a[2]) \div Limb), (2 * a[2]) % Limb>>
LimbInc(a) == IF a[2] + 1 = Limb THEN <<a[1] + 1, 0>> ELSE <<a[1], a[2] + 1>>
LimbGeq(a, b) == a[1] > b[1] \/ (a[1] = b[1] /\ a[2] >= b[2])
LimbSub(a, b) ==
    IF a[2] >= b[2] THEN <<a[1] - b[1], a[2] - b[2]>>
    ELSE <<a[1] - b[1] - 1, a[2] + Limb - b[2]>>
\* floor(a / 2)
LimbHalf(a) == <<a[1] \div 2, ((a[1] % 2) * Limb + a[2]) \div 2>>

\* round-half-to-even of a truncated mantissa m: up says the discarded part
\* is above one half, tie that it is exactly one half.  A carry out of the
\* 53 bits gives 2^52 with the exponent one higher.
float_round(m, e, up, tie) ==
    IF up \/ (tie /\ m[2] % 2 = 1)
    THEN IF LimbInc(m)[1] = 2 * MantissaHi
         THEN [m |-> <<MantissaHi, 0>>, e |-> e + 1]
         ELSE [m |-> LimbInc(m), e |-> e]
    ELSE [m |-> m, e |-> e]

\* a * 2^j for j <= 13, the result below 2^58
LimbShl(a, j) ==
    <<a[1] * (2 ^ j) + (a[2] \div (2 ^ (27 - j))), (a[2] % (2 ^ (27 - j))) * (2 ^ j)>>

\* j <= 13 steps of binary long division by a small integer q: the next j
\* quotient bits are shifted into quo, the remainder r stays below q
small_div_bits(s, q, j) ==
    [quo |-> <<LimbShl(s.quo, j)[1], LimbShl(s.quo, j)[2] + ((s.r * (2 ^ j)) \div q)>>,
     r |-> (s.r * (2 ^ j)) % q]

\* n quotient bits, 13 at a time
RECURSIVE small_div_steps(_, _, _)
small_div_steps(s, q, n) ==
    IF n <= 13 THEN small_div_bits(s, q, n)
    ELSE CHOOSE t \in {small_div_steps(h, q, n - 13) :
                          h \in {small_div_bits(s, q, 13)}} : TRUE

\* number of bits of i >= 1, and the shift that brings p < q up to q
BitLength(i) == CHOOSE k \in 1 .. 31 : i < 2 ^ k /\ 2 ^ (k - 1) <= i
LeadShift(p, q) == CHOOSE k \in 1 .. 31 : q <= p * (2 ^ k) /\ p * (2 ^ (k - 1)) < q

\* the double nearest to p / q (0 < p, 0 < q <= 10000): what json.load
\* gives for a decimal literal and what the compiler gives for 0.20
float_of(p, q) ==
    LET n == IF p >= q THEN 53 - BitLength(p \div q) ELSE 52
        e == IF p >= q THEN -n ELSE -52 - LeadShift(p, q)
        s0 == IF p >= q THEN [quo |-> <<0, p \div q>>, r |-> p % q]
              ELSE [quo |-> <<0, 1>>, r |-> p * (2 ^ LeadShift(p, q)) - q]
    IN  CHOOSE f \in {float_round(s.quo, e, 2 * s.r > q, 2 * s.r = q) :
                         s \in {small_div_steps(s0, q, n)}} : TRUE

\* x > y on positive doubles
float_gt(x, y) ==
    x.e > y.e \/ (x.e = y.e /\ LimbGeq(x.m, y.m) /\ x.m /= y.m)

\* shifts m up until it is normalised, k counts the shifts
float_normalise(m, e) ==
    LET k == 53 - (IF m[1] > 0 THEN 27 + BitLength(m[1]) ELSE BitLength(m[2]))
    IN  [m |-> IF k = 0 THEN m
               ELSE IF k >= 27
               THEN <<m[2] * (2 ^ (k - 27)), 0>>
               ELSE <<m[1] * (2 ^ k) + (m[2] \div (2 ^ (27 - k))),
                      (m[2] % (2 ^ (27 - k))) * (2 ^ k)>>,
         e |-> e - k]

\* x - y for doubles x > y > 0 with x <= 2 * y: the difference is a double
\* and the subtraction is exact
float_sub(x, y) ==
    CHOOSE f \in {float_normalise(d, y.e) :
                     d \in {LimbSub(IF x.e = y.e THEN x.m ELSE LimbDbl(x.m), y.m)}} :
        TRUE

\* a * d for a digit d < 16
LimbTimes(a, d) == <<a[1] * d + ((a[2] * d) \div Limb), (a[2] * d) % Limb>>

\* the quotient digit d was estimated from below: it is raised until the
\* remainder is below the divisor
RECURSIVE div_correct(_, _, _)
div_correct(d, rem, my) ==
    IF LimbGeq(rem, my) THEN div_correct(d + 1, LimbSub(rem, my), my)
    ELSE [d |-> d, r |-> rem]

\* j <= 4 steps of binary long division of mantissas by the mantissa my
\* (2^52 <= my): the digit floor(r * 2^j / my) is estimated from the high
\* limbs and corrected, the remainder r stays below my
div_bits(s, my, j) ==
    CHOOSE t \in {[quo |-> <<LimbShl(s.quo, j)[1], LimbShl(s.quo, j)[2] + c.d>>,
                   r |-> c.r] :
                     c \in {div_correct(d0, LimbSub(LimbShl(s.r, j), LimbTimes(my, d0)), my) :
                               d0 \in {(s.r[1] * (2 ^ j)) \div (my[1] + 1)}}} : TRUE

\* n quotient bits, 4 at a time
RECURSIVE div_steps(_, _, _)
div_steps(s, my, n) ==
    IF n <= 4 THEN div_bits(s, my, n)
    ELSE CHOOSE t \in {div_steps(h, my, n - 4) : h \in {div_bits(s, my, 4)}} : TRUE

\* x / y on positive doubles: 53 quotient bits, then rounding on the remainder
float_div(x, y) ==
    LET ge == LimbGeq(x.m, y.m)
        s0 == IF ge THEN [quo |-> <<0, 1>>, r |-> LimbSub(x.m, y.m)]
              ELSE [quo |-> <<0, 0>>, r |-> x.m]
        n == IF ge THEN 52 ELSE 53
    IN  CHOOSE f \in {float_round(s.quo, x.e - y.e - n,
                                  LimbGeq(LimbDbl(s.r), y.m) /\ LimbDbl(s.r) /= y.m,
                                  LimbDbl(s.r) = y.m) :
                         s \in {div_steps(s0, y.m, n)}} : TRUE

\* x * 1.5 on a positive double: 3 * m has 54 or 55 bits, of which the low
\* one or two are rounded away
float_times_1_5(x) ==
    CHOOSE f \in {IF t[1] >= 4 * MantissaHi
                  THEN float_round(LimbHalf(LimbHalf(t)), x.e + 1,
                                   t[2] % 4 = 3, t[2] % 4 = 2)
                  ELSE float_round(LimbHalf(t), x.e, FALSE, t[2] % 2 = 1) :
                     t \in {<<3 * x.m[1] + ((3 * x.m[2]) \div Limb),
                              (3 * x.m[2]) % Limb>>}} : TRUE

\* abs((cur - base) / base) > pct / 100 on doubles, for values given in
\* 1/100 and base > 0.  Off the boundary the rounding errors of the doubles
\* (a few 2^-53, relatively) are far smaller than the distance to it and the
\* exact values decide; on the boundary the doubles are computed.  The
\* quotient of a negative difference is the negated quotient of its
\* magnitude.
change_exceeds(cur, base, pct) ==
    IF (cur - base) * 100 /= pct * base /\ (base - cur) * 100 /= pct * base
    THEN (cur - base) * 100 > pct * base \/ (base - cur) * 100 > pct * base
    ELSE \E fc \in {float_of(cur, 100)}, fb \in {float_of(base, 100)} :
            \E diff \in {IF cur > base THEN float_sub(fc, fb) ELSE float_sub(fb, fc)} :
               \E change \in {float_div(diff, fb)} :
                  \E limit \in {float_of(pct, 100)} : float_gt(change, limit)

\* (cur - base) / base > pct / 100 on doubles
regression_exceeds(cur, base, pct) == cur > base /\ change_exceeds(cur, base, pct)

\* cur > base * 1.5 on doubles, for rates given in 1/10000
rate_exceeds(cur, base) ==
    IF 2 * cur /= 3 * base \/ base = 0
    THEN 2 * cur > 3 * base
    ELSE \E fc \in {float_of(cur, 10000)}, fb \in {float_of(base, 10000)} :
            \E limit \in {float_times_1_5(fb)} : float_gt(fc, limit)

\* The five rule blocks of compare_results.  Each takes and returns the pair
\* of locals (passed, issues).  An issue is the text appended, reduced to
\* the rule it reports, its severity and its leading symbol.
CheckErrorRate(st, cur, base) ==
    LET current_error_rate == Get(cur, "error_rate")
        baseline_error_rate == Get(base, "error_rate")
    IN  IF current_error_rate > 100
        THEN [passed |-> FALSE,
              issues |-> Append(st.issues,
                  [rule |-> "error_rate", level |-> "fail", symbol |-> "cross"])]
        ELSE IF rate_exceeds(current_error_rate, baseline_error_rate)
        THEN [passed |-> st.passed,
              issues |-> Append(st.issues,
                  [rule |-> "error_rate", level |-> "warn", symbol |-> "warning"])]
        ELSE st

\* (variant: the 10% warning also clears passed)
CheckP95WarnFails(st, cur, base) ==
    LET current_p95 == GetStat(cur, "p95_ms")
        baseline_p95 == GetStat(base, "p95_ms")
    IN  IF baseline_p95 > 0
        THEN IF regression_exceeds(current_p95, baseline_p95, 20)
             THEN [passed |-> FALSE,
                   issues |-> Append(st.issues,
                       [rule |-> "p95", level |-> "fail", symbol |-> "cross"])]
             ELSE IF regression_exceeds(current_p95, baseline_p95, 10)
             THEN [passed |-> FALSE,
                   issues |-> Append(st.issues,
                       [rule |-> "p95", level |-> "warn", symbol |-> "warning"])]
             ELSE st
        ELSE st

\* (variant: the p95 rule is skipped once the error-rate rule has failed)
CheckP95AfterPass(st, cur, base) ==
    LET current_p95 == GetStat(cur, "p95_ms")
        baseline_p95 == GetStat(base, "p95_ms")
    IN  IF st.passed /\ baseline_p95 > 0
        THEN IF regression_exceeds(current_p95, baseline_p95, 20)
             THEN [passed |-> FALSE,
                   issues |-> Append(st.issues,
                       [rule |-> "p95", level |-> "fail", symbol |-> "cross"])]
             ELSE IF regression_exceeds(current_p95, baseline_p95, 10)
             THEN [passed |-> st.passed,
                   issues |-> Append(st.issues,
                       [rule |-> "p95", level |-> "warn", symbol |-> "warning"])]
             ELSE st
        ELSE st

CheckP95(st, cur, base) ==
    LET current_p95 == GetStat(cur, "p95_ms")
        baseline_p95 == GetStat(base, "p95_ms")
    IN  IF baseline_p95 > 0
        THEN IF regression_exceeds(current_p95, baseline_p95, 20)
             THEN [passed |-> FALSE,
                   issues |-> Append(st.issues,
                       [rule |-> "p95", level |-> "fail", symbol |-> "cross"])]
             ELSE IF regression_exceeds(current_p95, baseline_p95, 10)
             THEN [passed |-> st.passed,
                   issues |-> Append(st.issues,
                       [rule |-> "p95", level |-> "warn", symbol |-> "warning"])]
             ELSE st
        ELSE st

CheckP50(st, cur, base) ==
    LET current_p50 == GetStat(cur, "p50_ms")
        baseline_p50 == GetStat(base, "p50_ms")
    IN  IF baseline_p50 > 0 /\ change_exceeds(current_p50, baseline_p50, 15)
        THEN [passed |-> st.passed,
              issues |-> Append(st.issues,
                  [rule |-> "p50", level |-> "info",
                   symbol |-> IF current_p50 - baseline_p50 > 0 THEN "up" ELSE "down"])]
        ELSE st

CheckThroughput(st, cur, base) ==
    LET current_throughput == Get(cur, "throughput_rps")
        baseline_throughput == Get(base, "throughput_rps")
    IN  IF /\ baseline_throughput > 0
           /\ change_exceeds(current_throughput, baseline_throughput, 15)
        THEN [passed |-> st.passed,
              issues |-> Append(st.issues,
                  [rule |-> "throughput", level |-> "info",
                   symbol |-> IF current_throughput - baseline_throughput > 0
                              THEN "up" ELSE "down"])]
        ELSE st

CheckFailed(st, cur, base) ==
    IF Get(cur, "failed_requests") > Get(base, "failed_requests") + 5
    THEN [passed |-> st.passed,
          issues |-> Append(st.issues,
              [rule |-> "failed_requests", level |-> "warn", symbol |-> "warning"])]
    ELSE st

\* compare_results(current, baseline) -> (passed, issues)
\* (the blocks run in source order; each block's result is evaluated once)
compare_results(cur, base) ==
    CHOOSE st5 \in
        {CheckFailed(st4, cur, base) : st4 \in
            {CheckThroughput(st3, cur, base) : st3 \in
                {CheckP50(st2, cur, base) : st2 \in
                    {CheckP95(st1, cur, base) : st1 \in
                        {CheckErrorRate([passed |-> TRUE, issues |-> <<>>],
                                        cur, base)}}}}} : TRUE

FileStates(docs) == {<<>>, <<CorruptDoc>>} \cup {<<d>> : d \in docs}

\* the layouts of a JSON text on disk: json.dump(..., indent=2) as run_bench.py
\* and compare.py write it, or any other rendering of the same document
Layouts(file) == IF file = <<>> THEN {"none"} ELSE {"indent2", "other"}

\* load_results: exit 1 for a missing file, an exception for text that is not
\* JSON, else the parsed document; the layout of the text is not kept
Loadable(file) == file /= <<>> /\ ~IsCorrupt(file[1])

CmpInit ==
    /\ BenchIdle
    /\ WatchIdle
    /\ AggIdle
    /\ cmp_pc = "start"
    /\ set_baseline \in BOOLEAN
    /\ current_file \in FileStates(CurrentDocs)
    /\ baseline_file \in FileStates(BaselineDocs)
    /\ current_layout \in Layouts(current_file)
    /\ baseline_layout \in Layouts(baseline_file)
    /\ current = <<>>
    /\ baseline = <<>>
    /\ passed = TRUE
    /\ issues = <<>>
    /\ cmp_exit = -1

CmpExit(code) == /\ cmp_pc' = "done"
                 /\ cmp_exit' = code

\* a variant that opens the baseline for writing before it loads the current
\* results, so a current file that cannot be parsed leaves an empty baseline
SetBaselineOpensFirst ==
    /\ cmp_pc = "start"
    /\ set_baseline
    /\ IF current_file = <<>>
       THEN /\ CmpExit(1)
            /\ UNCHANGED <<current, baseline_file, baseline_layout>>
       ELSE IF IsCorrupt(current_file[1])
       THEN /\ CmpExit(1)
            /\ baseline_file' = <<CorruptDoc>>
            /\ baseline_layout' = "other"
            /\ UNCHANGED current
       ELSE /\ current' = current_file
            /\ baseline_file' = current'
            /\ baseline_layout' = "indent2"
            /\ CmpExit(0)
    /\ UNCHANGED <<set_baseline, current_file, current_layout, baseline, passed, issues>>
    /\ UNCHANGED nonCmpVars

\* main, lines 182-195: --set-baseline copies the current results
SetBaseline ==
    /\ cmp_pc = "start"
    /\ set_baseline
    /\ IF ~Loadable(current_file)
       THEN /\ CmpExit(1)
            /\ UNCHANGED <<current, baseline_file, baseline_layout>>
       ELSE /\ current' = current_file
            /\ baseline_file' = current'
            /\ baseline_layout' = "indent2"
            /\ CmpExit(0)
    /\ UNCHANGED <<set_baseline, current_file, current_layout, baseline, passed, issues>>
    /\ UNCHANGED nonCmpVars

\* main, line 198: load_results(args.current)
LoadCurrent ==
    /\ cmp_pc = "start"
    /\ ~set_baseline
    /\ IF ~Loadable(current_file)
       THEN /\ CmpExit(1)
            /\ UNCHANGED current
       ELSE /\ current' = current_file
            /\ cmp_pc' = "baseline"
            /\ UNCHANGED cmp_exit
    /\ UNCHANGED <<set_baseline, current_file, baseline_file, current_layout,
                   baseline_layout, baseline, passed, issues>>
    /\ UNCHANGED nonCmpVars

\* a variant that treats a missing baseline like a missing current file
LoadBaselineMissingFails ==
    /\ cmp_pc = "baseline"
    /\ IF baseline_file = <<>> \/ IsCorrupt(baseline_file[1])
       THEN /\ CmpExit(1)
            /\ UNCHANGED baseline
       ELSE /\ baseline' = baseline_file
            /\ cmp_pc' = "compare"
            /\ UNCHANGED cmp_exit
    /\ UNCHANGED <<set_baseline, current_file, baseline_file, current_layout,
                   baseline_layout, current, passed, issues>>
    /\ UNCHANGED nonCmpVars

\* main, lines 200-205: a missing baseline ends the run with status 0
LoadBaseline ==
    /\ cmp_pc = "baseline"
    /\ IF baseline_file = <<>>
       THEN /\ CmpExit(0)
            /\ UNCHANGED baseline
       ELSE IF IsCorrupt(baseline_file[1])
       THEN /\ CmpExit(1)
            /\ UNCHANGED baseline
       ELSE /\ baseline' = baseline_file
            /\ cmp_pc' = "compare"
            /\ UNCHANGED cmp_exit
    /\ UNCHANGED <<set_baseline, current_file, baseline_file, current_layout,
                   baseline_layout, current, passed, issues>>
    /\ UNCHANGED nonCmpVars

\* main, line 208
Compare ==
    /\ cmp_pc = "compare"
    /\ \E r \in {compare_results(current[1], baseline[1])} :
           /\ passed' = r.passed
           /\ issues' = r.issues
    /\ cmp_pc' = "exit"
    /\ UNCHANGED <<set_baseline, current_file, baseline_file, current_layout,
                   baseline_layout, current, baseline, cmp_exit>>
    /\ UNCHANGED nonCmpVars

\* main, lines 215-226
CompareExit ==
    /\ cmp_pc = "exit"
    /\ IF passed THEN CmpExit(0) ELSE CmpExit(1)
    /\ UNCHANGED <<set_baseline, current_file, baseline_file, current_layout,
                   baseline_layout, current, baseline,
                   passed, issues>>
    /\ UNCHANGED nonCmpVars

NextCompare ==
    \/ SetBaseline
    \/ LoadCurrent
    \/ LoadBaseline
    \/ Compare
    \/ CompareExit

SpecCompare == CmpInit /\ [][NextCompare]_vars


\* ================================================= remediation/watcher.py
\* Metrics are read from the summary run_bench.py writes, in its units:
\* latencies and throughput in hundredths (ms, req/s), error_rate in 1/10000.

\* PerformanceThresholds, in those units
P95_LATENCY_WARNING == 10000
P95_LATENCY_CRITICAL == 15000
P99_LATENCY_CRITICAL == 20000
ERROR_RATE_WARNING == 100
ERROR_RATE_CRITICAL == 500
THROUGHPUT_MIN_WARNING == 1500
THROUGHPUT_MIN_CRITICAL == 1000

\* RemediationAction; the rationale is its text with the value it formats
RemediationAction(priority, action_type, description, command, rationale) ==
    [priority |-> priority, action_type |-> action_type,
     description |-> description, command |-> command, rationale |-> rationale]

\* the rule blocks of analyze_metrics, each appending to self.actions
\* a variant with "if" where the code has "elif": a critical p95 also
\* reports the warning action
RuleP95Both(acts, p95) ==
    LET crit == IF p95 >= P95_LATENCY_CRITICAL
                THEN Append(acts, RemediationAction(1, "scale",
                        "Scale gateway replicas to handle increased load",
                        "kubectl scale deployment llm-gateway --replicas=5",
                        <<"P95 latency exceeds critical threshold", p95>>))
                ELSE acts
    IN  IF p95 >= P95_LATENCY_WARNING
        THEN Append(crit, RemediationAction(2, "scale",
                "Increase gateway replicas",
                "kubectl scale deployment llm-gateway --replicas=4",
                <<"P95 latency exceeds warning threshold", p95>>))
        ELSE crit

\* lines 88-109
RuleP95(acts, p95) ==
    IF p95 >= P95_LATENCY_CRITICAL
    THEN Append(acts, RemediationAction(1, "scale",
            "Scale gateway replicas to handle increased load",
            "kubectl scale deployment llm-gateway --replicas=5",
            <<"P95 latency exceeds critical threshold", p95>>))
    ELSE IF p95 >= P95_LATENCY_WARNING
    THEN Append(acts, RemediationAction(2, "scale",
            "Increase gateway replicas",
            "kubectl scale deployment llm-gateway --replicas=4",
            <<"P95 latency exceeds warning threshold", p95>>))
    ELSE acts

\* lines 112-121
RuleP99(acts, p99) ==
    IF p99 >= P99_LATENCY_CRITICAL
    THEN Append(acts, RemediationAction(1, "scale",
            "Scale backend replicas for tail latency",
            "kubectl scale deployment llm-backend --replicas=5",
            <<"P99 latency indicates backend bottleneck", p99>>))
    ELSE acts

\* a variant with "if" where the code has "elif": a critical error rate also
\* reports the warning action
RuleErrorRateBoth(acts, error_rate) ==
    LET crit == IF error_rate >= ERROR_RATE_CRITICAL
                THEN Append(acts, RemediationAction(1, "rollback",
                        "Rollback to previous stable version",
                        "kubectl rollout undo deployment llm-gateway && kubectl rollout undo deployment llm-backend",
                        <<"Error rate exceeds critical threshold", error_rate>>))
                ELSE acts
    IN  IF error_rate >= ERROR_RATE_WARNING
        THEN Append(crit, RemediationAction(2, "config",
                "Reduce load by lowering max_tokens",
                "kubectl patch configmap llm-config -p MAX_TOKENS=50",
                <<"Error rate indicates system overload", error_rate>>))
        ELSE crit

\* lines 124-146
RuleErrorRate(acts, error_rate) ==
    IF error_rate >= ERROR_RATE_CRITICAL
    THEN Append(acts, RemediationAction(1, "rollback",
            "Rollback to previous stable version",
            "kubectl rollout undo deployment llm-gateway && kubectl rollout undo deployment llm-backend",
            <<"Error rate exceeds critical threshold", error_rate>>))
    ELSE IF error_rate >= ERROR_RATE_WARNING
    THEN Append(acts, RemediationAction(2, "config",
            "Reduce load by lowering max_tokens",
            "kubectl patch configmap llm-config -p '{\"data\":{\"MAX_TOKENS\":\"50\"}}'",
            <<"Error rate indicates system overload", error_rate>>))
    ELSE acts

\* lines 149-168
RuleThroughput(acts, throughput) ==
    IF throughput <= THROUGHPUT_MIN_CRITICAL
    THEN Append(acts, RemediationAction(1, "scale",
            "Emergency scaling - throughput critically low",
            "kubectl scale deployment llm-gateway --replicas=10",
            <<"Throughput critically low", throughput>>))
    ELSE IF throughput <= THROUGHPUT_MIN_WARNING
    THEN Append(acts, RemediationAction(3, "investigate",
            "Investigate throughput degradation",
            "kubectl logs -l app=gateway --tail=100",
            <<"Throughput below expected baseline", throughput>>))
    ELSE acts

\* a variant that reports the combined action when either metric is degraded
RuleCombinedEither(acts, p95, error_rate) ==
    IF p95 >= P95_LATENCY_WARNING \/ error_rate >= ERROR_RATE_WARNING
    THEN Append(acts, RemediationAction(1, "combined",
            "Combined remediation: scale and rollback",
            "kubectl scale deployment llm-gateway --replicas=6 && kubectl rollout undo deployment llm-gateway",
            <<"Multiple degraded metrics detected - combined approach needed", 0>>))
    ELSE acts

\* lines 171-184
RuleCombined(acts, p95, error_rate) ==
    IF p95 >= P95_LATENCY_WARNING /\ error_rate >= ERROR_RATE_WARNING
    THEN Append(acts, RemediationAction(1, "combined",
            "Combined remediation: scale and rollback",
            "kubectl scale deployment llm-gateway --replicas=6 && kubectl rollout undo deployment llm-gateway",
            <<"Multiple degraded metrics detected - combined approach needed", 0>>))
    ELSE acts

\* "not self.results": None, or a document without any field
Falsy(res) == res = <<>> \/ DOMAIN res[1] = {}

\* a variant that evaluates the combined rule before the single-metric rules
analyze_metrics_combined_first(acts, res) ==
    IF Falsy(res) THEN acts
    ELSE LET p95 == GetStat(res[1], "p95_ms")
             p99 == GetStat(res[1], "p99_ms")
             error_rate == Get(res[1], "error_rate")
             throughput == Get(res[1], "throughput_rps")
         IN  RuleThroughput(
                 RuleErrorRate(
                     RuleP99(RuleP95(RuleCombined(acts, p95, error_rate), p95), p99),
                     error_rate),
                 throughput)

\* analyze_metrics: self.actions afterwards, given self.actions (acts) and
\* self.results (res) before
analyze_metrics(acts, res) ==
    IF Falsy(res) THEN acts
    ELSE LET p95 == GetStat(res[1], "p95_ms")
             p99 == GetStat(res[1], "p99_ms")
             error_rate == Get(res[1], "error_rate")
             throughput == Get(res[1], "throughput_rps")
         IN  RuleCombined(
                 RuleThroughput(
                     RuleErrorRate(
                         RuleP99(RuleP95(acts, p95), p99),
                         error_rate),
                     throughput),
                 p95, error_rate)

\* sorted(self.actions, key=lambda x: x.priority): the place of element i
SortedPlace(acts, i) ==
    1 + Cardinality({j \in 1 .. Len(acts) :
            \/ acts[j].priority < acts[i].priority
            \/ acts[j].priority = acts[i].priority /\ j < i})

\* a variant that is not stable: equal priorities come out in reverse order
sorted_actions_ties_reversed(acts) ==
    [k \in 1 .. Len(acts) |->
        acts[CHOOSE i \in 1 .. Len(acts) :
            k = 1 + Cardinality({j \in 1 .. Len(acts) :
                    \/ acts[j].priority < acts[i].priority
                    \/ acts[j].priority = acts[i].priority /\ j > i})]]

sorted_actions(acts) ==
    [k \in 1 .. Len(acts) |->
        acts[CHOOSE i \in 1 .. Len(acts) : SortedPlace(acts, i) = k]]

\* a line of the generated script: its kind, the step it belongs to (0 for
\* the header and the footer) and its text
ScriptLine(kind, n, text) == [kind |-> kind, n |-> n, text |-> text]

\* lines 276-281
ScriptHeader ==
    << ScriptLine("shebang", 0, "#!/bin/bash"),
       ScriptLine("comment", 0, "# Auto-generated remediation script"),
       ScriptLine("comment", 0, "# Generated: now"),
       ScriptLine("command", 0, "set -e"),
       ScriptLine("echo", 0, "Starting auto-remediation...") >>

\* lines 285-288: the four lines of step i for one action
ScriptStep(i, action) ==
    << ScriptLine("comment", i, action.description),
       ScriptLine("echo", i, action.description),
       ScriptLine("command", i, action.command),
       ScriptLine("sleep", i, "sleep 2") >>

\* lines 290-291
ScriptFooter ==
    << ScriptLine("echo", 0, "Remediation complete"),
       ScriptLine("command", 0, "kubectl get pods") >>

\* lines 283-288: the steps of the sorted actions, one after the other
ScriptSteps(sorted) ==
    [k \in 1 .. 4 * Len(sorted) |->
        ScriptStep(((k - 1) \div 4) + 1, sorted[((k - 1) \div 4) + 1])[((k - 1) % 4) + 1]]

script_content(acts) ==
    ScriptHeader \o ScriptSteps(sorted_actions(acts)) \o ScriptFooter

\* generate_script: the writes to output_file afterwards, given the writes
\* before; nothing is written for an empty action list
generate_script(file, acts) ==
    IF acts = <<>> THEN file ELSE Append(file, script_content(acts))

\* a variant that tests for a critical or high priority
should_remediate_high(acts) ==
    \E k \in 1 .. Len(acts) : acts[k].priority <= 2

should_remediate(acts) ==
    \E k \in 1 .. Len(acts) : acts[k].priority = 1

\* the results documents: every combination of values around the thresholds,
\* and documents that lack fields
WatcherFullDocs ==
    [latency_stats : [p95_ms : {9999, 10000, 14999, 15000, 16000},
                      p99_ms : {19999, 20000}],
     error_rate : {0, 99, 100, 499, 500, 600},
     throughput_rps : {1000, 1001, 1500, 1501}]

EmptyDoc == <<>>

WatcherPartialDocs ==
    { EmptyDoc,
      [error_rate |-> 0],
      [error |-> "All requests failed", total_requests |-> 3,
       failed_requests |-> 3, error_rate |-> 10000],
      [latency_stats |-> [p95_ms |-> 16000], error_rate |-> 600],
      [latency_stats |-> [p95_ms |-> 5000, p99_ms |-> 8000],
       throughput_rps |-> 3000],
      [latency_stats |-> [p99_ms |-> 25000], error_rate |-> 100,
       throughput_rps |-> 1200] }

WatcherDocs == WatcherFullDocs \cup WatcherPartialDocs

\* what subprocess.run(["bash", script], timeout=300) can do
RunOutcomes == {"returncode 0", "returncode 1", "TimeoutExpired", "Exception"}

WatchInit ==
    /\ BenchIdle
    /\ CmpIdle
    /\ AggIdle
    /\ w_pc = "load"
    /\ results_file \in FileStates(WatcherDocs)
    /\ generate_script_to \in BOOLEAN
    /\ auto_execute \in BOOLEAN
    /\ dry_run \in BOOLEAN
    /\ w_results = <<>>
    /\ actions = <<>>
    /\ report = <<>>
    /\ script_file = <<>>
    /\ tmp_script = <<>>
    /\ subprocess_runs = <<>>
    /\ w_exit = -1

WatchExit(code) == /\ w_pc' = "done"
                   /\ w_exit' = code

\* main, lines 338-339, and load_results
WatcherLoad ==
    /\ w_pc = "load"
    /\ IF results_file = <<>> \/ IsCorrupt(results_file[1])
       THEN /\ WatchExit(1)
            /\ UNCHANGED w_results
       ELSE /\ w_results' = results_file
            /\ w_pc' = "analyze"
            /\ UNCHANGED w_exit
    /\ UNCHANGED <<results_file, generate_script_to, auto_execute, dry_run, actions,
                   report, script_file, tmp_script, subprocess_runs>>
    /\ UNCHANGED nonWatchVars

\* main, line 341
WatcherAnalyze ==
    /\ w_pc = "analyze"
    /\ actions' = analyze_metrics(actions, w_results)
    /\ w_pc' = "report"
    /\ UNCHANGED <<results_file, generate_script_to, auto_execute, dry_run, w_results,
                   report, script_file, tmp_script, subprocess_runs, w_exit>>
    /\ UNCHANGED nonWatchVars

\* main, line 342, and print_report: the actions are listed sorted by priority
WatcherReport ==
    /\ w_pc = "report"
    /\ report' = Append(report,
                    IF Falsy(w_results) THEN <<>> ELSE sorted_actions(actions))
    /\ w_pc' = "script"
    /\ UNCHANGED <<results_file, generate_script_to, auto_execute, dry_run, w_results,
                   actions, script_file, tmp_script, subprocess_runs, w_exit>>
    /\ UNCHANGED nonWatchVars

\* main, lines 345-346
WatcherGenerate ==
    /\ w_pc = "script"
    /\ script_file' = IF generate_script_to
                      THEN generate_script(script_file, actions)
                      ELSE script_file
    /\ w_pc' = "execute"
    /\ UNCHANGED <<results_file, generate_script_to, auto_execute, dry_run, w_results,
                   actions, report, tmp_script, subprocess_runs, w_exit>>
    /\ UNCHANGED nonWatchVars

\* a variant that ignores --dry-run
WatcherAutoExecuteDespiteDryRun ==
    /\ w_pc = "execute"
    /\ IF auto_execute /\ should_remediate(actions)
       THEN /\ tmp_script' = generate_script(tmp_script, actions)
            /\ subprocess_runs' = Append(subprocess_runs, tmp_script'[Len(tmp_script')])
            /\ \E outcome \in RunOutcomes :
                  IF outcome = "returncode 0"
                  THEN w_pc' = "exit" /\ UNCHANGED w_exit
                  ELSE WatchExit(1)
       ELSE /\ w_pc' = "exit"
            /\ UNCHANGED <<tmp_script, subprocess_runs, w_exit>>
    /\ UNCHANGED <<results_file, generate_script_to, auto_execute, dry_run, w_results,
                   actions, report, script_file>>
    /\ UNCHANGED nonWatchVars

\* main, lines 349-370: the script is written to /tmp/auto_remediation.sh and
\* run with bash; a non-zero return code, a timeout or an exception exit with 1
WatcherAutoExecute ==
    /\ w_pc = "execute"
    /\ IF auto_execute /\ ~dry_run /\ should_remediate(actions)
       THEN /\ tmp_script' = generate_script(tmp_script, actions)
            /\ subprocess_runs' = Append(subprocess_runs, tmp_script'[Len(tmp_script')])
            /\ \E outcome \in RunOutcomes :
                  IF outcome = "returncode 0"
                  THEN w_pc' = "exit" /\ UNCHANGED w_exit
                  ELSE WatchExit(1)
       ELSE /\ w_pc' = "exit"
            /\ UNCHANGED <<tmp_script, subprocess_runs, w_exit>>
    /\ UNCHANGED <<results_file, generate_script_to, auto_execute, dry_run, w_results,
                   actions, report, script_file>>
    /\ UNCHANGED nonWatchVars

\* main, lines 373-378
WatcherExit ==
    /\ w_pc = "exit"
    /\ IF should_remediate(actions) THEN WatchExit(1) ELSE WatchExit(0)
    /\ UNCHANGED <<results_file, generate_script_to, auto_execute, dry_run, w_results,
                   actions, report, script_file, tmp_script, subprocess_runs>>
    /\ UNCHANGED nonWatchVars

NextWatcher ==
    \/ WatcherLoad
    \/ WatcherAnalyze
    \/ WatcherReport
    \/ WatcherGenerate
    \/ WatcherAutoExecute
    \/ WatcherExit

SpecWatcher == WatchInit /\ [][NextWatcher]_vars


\* ------------------------------------------- the watcher used as an object
\* One RemediationWatcher whose methods are called in any order, any number
\* of times (up to MaxAnalyses passes), on a results file that does not change.
WatcherObjectInit ==
    /\ BenchIdle
    /\ CmpIdle
    /\ AggIdle
    /\ w_pc = "object"
    /\ results_file \in FileStates(WatcherDocs)
    /\ generate_script_to = TRUE
    /\ auto_execute = FALSE
    /\ dry_run = FALSE
    /\ w_results = <<>>
    /\ actions = <<>>
    /\ report = <<>>
    /\ script_file = <<>>
    /\ tmp_script = <<>>
    /\ subprocess_runs = <<>>
    /\ w_exit = -1

\* load_results(), lines 59-74: self.results is set only by a successful load
CallLoadResults ==
    /\ w_pc = "object"
    /\ w_results' = IF results_file = <<>> \/ IsCorrupt(results_file[1])
                    THEN w_results
                    ELSE results_file
    /\ UNCHANGED <<w_pc, results_file, generate_script_to, auto_execute, dry_run,
                   actions, report, script_file, tmp_script, subprocess_runs, w_exit>>
    /\ UNCHANGED nonWatchVars

\* analyze_metrics(), lines 76-184: appends to the actions already held
CallAnalyzeMetrics ==
    /\ w_pc = "object"
    /\ Len(analyze_metrics(actions, w_results))
            <= MaxAnalyses * Len(analyze_metrics(<<>>, w_results))
    /\ actions' = analyze_metrics(actions, w_results)
    /\ UNCHANGED <<w_pc, results_file, generate_script_to, auto_execute, dry_run,
                   w_results, report, script_file, tmp_script, subprocess_runs, w_exit>>
    /\ UNCHANGED nonWatchVars

\* generate_script(output_file), lines 271-302
CallGenerateScript ==
    /\ w_pc = "object"
    /\ Len(script_file) < MaxAnalyses
    /\ script_file' = generate_script(script_file, actions)
    /\ UNCHANGED <<w_pc, results_file, generate_script_to, auto_execute, dry_run,
                   w_results, actions, report, tmp_script, subprocess_runs, w_exit>>
    /\ UNCHANGED nonWatchVars

NextWatcherObject ==
    \/ CallLoadResults
    \/ CallAnalyzeMetrics
    \/ CallGenerateScript

SpecWatcherObject == WatcherObjectInit /\ [][NextWatcherObject]_vars


\* ================================================================ claims
Returned == Len(benchmark_results) = 1
Summary == benchmark_results[1]
IsNormal(sm) == "latency_stats" \in DOMAIN sm
ValidInputs == num_requests >= 1 /\ concurrency >= 1 /\ prompts >= 1

SuccIdx == {i \in 1 .. Len(results) : results[i].success}
FailIdx == {i \in 1 .. Len(results) : ~results[i].success}

\* C1: every summary run_benchmark returns has
\* successful_requests + failed_requests = total_requests.
\* Stated as the claim; run_benchmark(num_requests = -1) returns
\* total_requests = -1 with no outcome at all.
C1_CountsAddUp ==
    Returned =>
        Summary.successful_requests + Summary.failed_requests = Summary.total_requests

\* C2 as stated: in every returned summary error_rate is exactly
\* failed_requests / total_requests  (error_rate is held in 1/10000).
\* Stated for runs of at least one request, where the quotient is defined.
C2_ExactErrorRate ==
    (Returned /\ num_requests >= 1) =>
        Summary.error_rate * Summary.total_requests = Summary.failed_requests * 10000

\* C2 (amended): in every returned summary error_rate is 1.0 when no outcome
\* was successful and otherwise failed_requests / total_requests rounded to
\* four decimal places.
C2_RoundedErrorRate ==
    Returned =>
        /\ Summary.failed_requests = Cardinality(FailIdx)
        /\ Summary.total_requests = num_requests
        /\ Summary.error_rate =
              IF SuccIdx = {} THEN 10000
              ELSE RoundDiv(10000 * Cardinality(FailIdx), num_requests)

C2_Witness ==
    /\ Returned
    /\ Summary.total_requests = 3
    /\ Summary.failed_requests = 1
    /\ Summary.error_rate = 3333

\* The element at 0-based index k of the ascending order of the successful
\* requests' latencies, by rank: fewer than k+1 latencies are below it and
\* at least k+1 are not above it.
RankElem(k) ==
    CHOOSE x \in {results[i].latency_ms : i \in SuccIdx} :
        /\ Cardinality({i \in SuccIdx : results[i].latency_ms < x}) <= k
        /\ Cardinality({i \in SuccIdx : results[i].latency_ms <= x}) > k

Min(a, b) == IF a < b THEN a ELSE b

\* floor(n * q / 100) clamped to n - 1
NearestRank(n, q) == Min((n * q) \div 100, n - 1)

\* C3: with n >= 1 successful latencies, p95 and p99 are the elements at
\* index min(floor(n*q), n-1) of the successful latencies in ascending order
\* (the summary stores them rounded to two decimals); latencies of failed
\* requests take no part.
C3_NearestRank ==
    (Returned /\ IsNormal(Summary)) =>
        LET n == Cardinality(SuccIdx)
        IN  /\ n >= 1
            /\ p95_latency(results) = RankElem(NearestRank(n, 95))
            /\ p99_latency(results) = RankElem(NearestRank(n, 99))
            /\ Summary.latency_stats.p95_ms = Round2(RankElem(NearestRank(n, 95)))
            /\ Summary.latency_stats.p99_ms = Round2(RankElem(NearestRank(n, 99)))

\* 101 successes and 2 failures: p95, p99 and the maximum are three
\* different elements
C3_Witness ==
    /\ Returned
    /\ IsNormal(Summary)
    /\ Cardinality(SuccIdx) = 101
    /\ Cardinality(FailIdx) = 2
    /\ Summary.latency_stats.p95_ms = Round2(LatLow)
    /\ Summary.latency_stats.p99_ms = Round2(LatMid)
    /\ Summary.latency_stats.max_ms = Round2(LatHigh)

IdsOf(seq) == {seq[k] : k \in 1 .. Len(seq)}
ResultIds == {results[k].request_id : k \in 1 .. Len(results)}

\* C4: every request id 1..N is dispatched exactly once and contributes
\* exactly one outcome, the one its send_request call returned; nothing is
\* retried, lost or duplicated, and no failing request ends the run.
C4_ExactlyOnce ==
    /\ \A i, j \in 1 .. Len(dispatchLog) : dispatchLog[i] = dispatchLog[j] => i = j
    /\ \A i, j \in 1 .. Len(results) :
            results[i].request_id = results[j].request_id => i = j
    /\ \A a, b \in sent : a.request_id = b.request_id => a = b
    /\ \A k \in 1 .. Len(results) : results[k] \in sent
    /\ Returned =>
            /\ IdsOf(dispatchLog) = 1 .. RangeLen(num_requests)
            /\ ResultIds = 1 .. RangeLen(num_requests)
            /\ Len(results) = RangeLen(num_requests)
    /\ (dispatchLog /= <<>> /\ pc = "crashed") => Returned

C4_Witness ==
    /\ Returned
    /\ concurrency = 2
    /\ Len(results) = 3
    /\ results[1].request_id = 3
    /\ ~results[1].success
    /\ results[2].request_id = 1
    /\ results[2].success
    /\ results[3].error = "Request timeout"

\* C5: with concurrency = 1 requests are dispatched one at a time in
\* request-id order, request k+1 only after request k has its outcome in
\* the results, and the results are in request-id order.
C5_Sequential ==
    concurrency = 1 =>
        /\ dispatchLog = [k \in 1 .. Len(dispatchLog) |-> k]
        /\ \A k \in 1 .. Len(results) : results[k].request_id = k
        /\ Cardinality(inflight) <= 1
        /\ Len(dispatchLog) = Len(results) + Cardinality(inflight)
        /\ inflight \subseteq {Len(dispatchLog)}

C5_Witness ==
    /\ concurrency = 1
    /\ Len(results) = 2
    /\ inflight = {3}
    /\ ~results[1].success
    /\ results[2].success

\* C6: a run with total_requests < 1, concurrency < 1 or an empty prompt set
\* dispatches no request and produces no summary.
\* Stated as the claim; run_benchmark(num_requests = 0) returns the
\* all-failed summary.
C6_InputsValidated ==
    (Returned \/ dispatchLog /= <<>>) => ValidInputs

\* C7: when no outcome is successful the summary returned has error_rate 1.0,
\* successful_requests 0 and no latency statistics, and no statistics
\* function is ever called on an empty latency list.
C7_Degenerate ==
    /\ (Returned /\ SuccIdx = {}) =>
            /\ Summary.error_rate = 10000
            /\ Summary.successful_requests = 0
            /\ ~IsNormal(Summary)
            /\ statCalls = <<>>
    /\ \A k \in 1 .. Len(statCalls) : statCalls[k].n >= 1
    /\ error /= "StatisticsError"

C7_Witness ==
    /\ Returned
    /\ Len(results) = 3
    /\ SuccIdx = {}
    /\ Summary.failed_requests = 3
    /\ Summary.error_rate = 10000

\* C8: a run that completed its requests has written its summary to the
\* results file exactly once when the process has ended.
\* Stated as the claim, for valid inputs; with every request failed
\* print_results raises KeyError before the file is written.
C8_PersistedOnce ==
    (pc \in {"done", "crashed"} /\ Returned /\ ValidInputs) =>
        outfile = <<Summary>>

\* ------------------------------------------------------- compare.py claims
Compared == cmp_pc \in {"exit", "done"} /\ baseline /= <<>>
Cur == current[1]
Base == baseline[1]

HasFailIssue == \E k \in 1 .. Len(issues) : issues[k].level = "fail"

\* C9: passed is false exactly when current.error_rate > 0.01 or
\* (baseline.p95 > 0 and (current.p95 - baseline.p95) / baseline.p95 > 0.20,
\* the quotient and the comparison taken on doubles as the documents hold
\* them), which is exactly when a fail-severity issue was reported; warn and
\* info issues leave passed true.
C9_PassedIffNoFail ==
    Compared =>
        /\ ~passed <=>
              \/ Get(Cur, "error_rate") > 100
              \/ /\ GetStat(Base, "p95_ms") > 0
                 /\ regression_exceeds(GetStat(Cur, "p95_ms"),
                                       GetStat(Base, "p95_ms"), 20)
        /\ ~passed <=> HasFailIssue

\* a 15% p95 regression with more failed requests and a throughput drift:
\* three issues, none of them a fail, and the comparison passed
C9_Witness ==
    /\ Compared
    /\ passed
    /\ Len(issues) = 3
    /\ GetStat(Cur, "p95_ms") = 11500
    /\ GetStat(Base, "p95_ms") = 10000
    /\ issues[1] = [rule |-> "p95", level |-> "warn", symbol |-> "warning"]
    /\ issues[3].rule = "failed_requests"

RuleOrder == <<"error_rate", "p95", "p50", "throughput", "failed_requests">>

\* relative change of a metric beyond pct percent (baseline b > 0), the
\* change being the quotient of doubles (c - b) / b
Beyond(c, b, pct) == b > 0 /\ regression_exceeds(c, b, pct)
Drift(c, b, pct) == b > 0 /\ change_exceeds(c, b, pct)

\* the issue a rule reports for the loaded documents, <<>> if its condition
\* does not hold
ExpectedIssue(rule) ==
    CASE rule = "error_rate" ->
            IF Get(Cur, "error_rate") > 100 THEN <<"fail">>
            ELSE IF rate_exceeds(Get(Cur, "error_rate"), Get(Base, "error_rate"))
            THEN <<"warn">> ELSE <<>>
      [] rule = "p95" ->
            IF Beyond(GetStat(Cur, "p95_ms"), GetStat(Base, "p95_ms"), 20) THEN <<"fail">>
            ELSE IF Beyond(GetStat(Cur, "p95_ms"), GetStat(Base, "p95_ms"), 10)
            THEN <<"warn">> ELSE <<>>
      [] rule = "p50" ->
            IF Drift(GetStat(Cur, "p50_ms"), GetStat(Base, "p50_ms"), 15)
            THEN <<"info">> ELSE <<>>
      [] rule = "throughput" ->
            IF Drift(Get(Cur, "throughput_rps"), Get(Base, "throughput_rps"), 15)
            THEN <<"info">> ELSE <<>>
      [] rule = "failed_requests" ->
            IF Get(Cur, "failed_requests") - Get(Base, "failed_requests") > 5
            THEN <<"warn">> ELSE <<>>

RuleHolds(rule) == ExpectedIssue(rule) /= <<>>

\* C10: the issue list holds exactly one issue for each rule whose condition
\* holds and none for the others, in the order error rate, p95, p50,
\* throughput, failed requests, whatever the earlier rules reported.
C10_AllRulesInOrder ==
    Compared =>
        LET triggered == SelectSeq(RuleOrder, RuleHolds)
        IN  /\ Len(issues) = Len(triggered)
            /\ \A k \in 1 .. Len(issues) :
                  /\ issues[k].rule = triggered[k]
                  /\ <<issues[k].level>> = ExpectedIssue(triggered[k])

\* both fail rules trigger and the three later rules still report
C10_Witness ==
    /\ Compared
    /\ Len(issues) = 5
    /\ issues[1].level = "fail"
    /\ issues[2].level = "fail"
    /\ issues[3] = [rule |-> "p50", level |-> "info", symbol |-> "down"]
    /\ issues[4] = [rule |-> "throughput", level |-> "info", symbol |-> "up"]
    /\ issues[5].rule = "failed_requests"

\* ---------------------------------------------------- compare.py main claims
CmpDone == cmp_pc = "done"

\* C11: in comparison mode (no --set-baseline) a missing current-results file
\* ends the run with status 1; a readable current file with no baseline file
\* ends it with status 0 and no comparison was made; with both files readable
\* the status is 0 exactly when compare_results returned passed = true and 1
\* when it returned passed = false. A file that is not JSON ends the run with
\* status 1 before any comparison.
C11_ExitStatus ==
    (CmpDone /\ ~set_baseline) =>
        /\ current_file = <<>> => cmp_exit = 1
        /\ (Loadable(current_file) /\ baseline_file = <<>>) =>
              /\ cmp_exit = 0
              /\ baseline = <<>>
              /\ issues = <<>>
        /\ (Loadable(current_file) /\ Loadable(baseline_file)) =>
              /\ passed = compare_results(current_file[1], baseline_file[1]).passed
              /\ issues = compare_results(current_file[1], baseline_file[1]).issues
              /\ passed => cmp_exit = 0
              /\ ~passed => cmp_exit = 1
        /\ ~(Loadable(current_file) /\ Loadable(baseline_file)) =>
              (passed /\ issues = <<>> /\ cmp_exit \in {0, 1})
        /\ cmp_exit = 0 =>
              (Loadable(current_file) /\ (baseline_file = <<>> \/ Loadable(baseline_file)))

\* the current results were read, there is no baseline, the run ended with 0
C11_Witness ==
    /\ CmpDone
    /\ ~set_baseline
    /\ current /= <<>>
    /\ current[1] \in CurrentDocs
    /\ baseline_file = <<>>
    /\ baseline = <<>>
    /\ cmp_exit = 0

\* C12: a --set-baseline run with an existing, readable current-results file
\* leaves the baseline file holding exactly the current document (written
\* with indent 2) and ends with status 0; with a current file that is missing
\* or cannot be parsed it ends with a non-zero status and leaves the baseline
\* file as it was.
C12_SetBaseline ==
    [][(set_baseline /\ cmp_pc = "start") =>
          /\ cmp_pc' = "done"
          /\ current_file' = current_file
          /\ IF Loadable(current_file)
             THEN /\ baseline_file' = current_file
                  /\ baseline_layout' = "indent2"
                  /\ cmp_exit' = 0
             ELSE /\ baseline_file' = baseline_file
                  /\ baseline_layout' = baseline_layout
                  /\ cmp_exit' \notin {-1, 0}]_vars

\* the baseline file now holds a current-results document (no baseline the
\* run could start with is one), written with indent 2 whatever the layout of
\* the current file
C12_Witness ==
    /\ CmpDone
    /\ set_baseline
    /\ cmp_exit = 0
    /\ baseline_file = current_file
    /\ baseline_file[1] \in CurrentDocs \ BaselineDocs
    /\ current_layout = "other"
    /\ baseline_layout = "indent2"

\* ------------------------------------------------------- watcher.py claims
\* analyze_metrics has returned for a loaded document
Analyzed == w_pc \in {"report", "script", "execute", "exit", "done"} /\ w_results /= <<>>

\* the values analyze_metrics reads (lines 81-85)
ReadP95 == GetStat(w_results[1], "p95_ms")
ReadP99 == GetStat(w_results[1], "p99_ms")
ReadErrorRate == Get(w_results[1], "error_rate")
ReadThroughput == Get(w_results[1], "throughput_rps")

\* the positions in self.actions of the actions of one kind
Positions(priority, action_type, description) ==
    {k \in 1 .. Len(actions) :
        /\ actions[k].priority = priority
        /\ actions[k].action_type = action_type
        /\ actions[k].description = description}

P95Critical == Positions(1, "scale", "Scale gateway replicas to handle increased load")
P95Warning == Positions(2, "scale", "Increase gateway replicas")
P99Critical == Positions(1, "scale", "Scale backend replicas for tail latency")
ErrorCritical == Positions(1, "rollback", "Rollback to previous stable version")
ErrorWarning == Positions(2, "config", "Reduce load by lowering max_tokens")
ThroughputCritical == Positions(1, "scale", "Emergency scaling - throughput critically low")
ThroughputWarning == Positions(3, "investigate", "Investigate throughput degradation")
Combined == Positions(1, "combined", "Combined remediation: scale and rollback")

\* every action is of one of the eight kinds
KnownActions ==
    P95Critical \cup P95Warning \cup P99Critical \cup ErrorCritical \cup ErrorWarning
        \cup ThroughputCritical \cup ThroughputWarning \cup Combined
            = 1 .. Len(actions)

One(S) == Cardinality(S) = 1
None(S) == S = {}

\* C13: for each metric at most one of its critical and warning actions is
\* reported.  For a summary that holds any field: p95 >= 150 gives the
\* priority-1 scale and not the priority-2 one, 100 <= p95 < 150 the priority-2
\* scale only, p95 < 100 neither; error_rate >= 0.05 gives the priority-1
\* rollback only, 0.01 <= error_rate < 0.05 the priority-2 config change only;
\* throughput <= 10 gives the priority-1 emergency scale only,
\* 10 < throughput <= 15 the priority-3 investigate only; the priority-1
\* backend scale is reported exactly when p99 >= 200, whatever p95 is.
C13_OneVariantPerMetric ==
    Analyzed =>
        /\ KnownActions
        /\ Cardinality(P95Critical \cup P95Warning) <= 1
        /\ Cardinality(ErrorCritical \cup ErrorWarning) <= 1
        /\ Cardinality(ThroughputCritical \cup ThroughputWarning) <= 1
        /\ Cardinality(P99Critical) <= 1
        /\ ~Falsy(w_results) =>
              /\ ReadP95 >= 15000 => (One(P95Critical) /\ None(P95Warning))
              /\ (10000 <= ReadP95 /\ ReadP95 < 15000) =>
                    (One(P95Warning) /\ None(P95Critical))
              /\ ReadP95 < 10000 => None(P95Critical \cup P95Warning)
              /\ ReadErrorRate >= 500 => (One(ErrorCritical) /\ None(ErrorWarning))
              /\ (100 <= ReadErrorRate /\ ReadErrorRate < 500) =>
                    (One(ErrorWarning) /\ None(ErrorCritical))
              /\ ReadErrorRate < 100 => None(ErrorCritical \cup ErrorWarning)
              /\ ReadThroughput <= 1000 =>
                    (One(ThroughputCritical) /\ None(ThroughputWarning))
              /\ (1000 < ReadThroughput /\ ReadThroughput <= 1500) =>
                    (One(ThroughputWarning) /\ None(ThroughputCritical))
              /\ ReadThroughput > 1500 =>
                    None(ThroughputCritical \cup ThroughputWarning)
              /\ One(P99Critical) <=> ReadP99 >= 20000

\* p95 = 150 exactly with p99 below 200: the critical p95 scale without the
\* warning one, an error-rate warning and a throughput warning
C13_Witness ==
    /\ Analyzed
    /\ ReadP95 = 15000
    /\ ReadP99 = 19999
    /\ ReadErrorRate = 499
    /\ ReadThroughput = 1001
    /\ One(P95Critical) /\ None(P95Warning) /\ None(P99Critical)
    /\ One(ErrorWarning) /\ None(ErrorCritical)
    /\ One(ThroughputWarning) /\ None(ThroughputCritical)

\* C14: the priority-1 combined action is reported exactly when p95 >= 100 and
\* error_rate >= 0.01; it is reported once, in addition to the single-metric
\* actions: the plan then also holds a p95 scale action and an error-rate
\* action, both before the combined action, which is the last of the plan.
C14_CombinedOnTop ==
    Analyzed =>
        /\ Cardinality(Combined) <= 1
        /\ One(Combined) <=> (ReadP95 >= 10000 /\ ReadErrorRate >= 100)
        /\ One(Combined) =>
              /\ Combined = {Len(actions)}
              /\ \E i \in P95Critical \cup P95Warning : i < Len(actions)
              /\ \E j \in ErrorCritical \cup ErrorWarning : j < Len(actions)
              /\ Len(actions) >= 3

\* both metrics exactly at their warning thresholds: the two priority-2
\* actions and then the combined one
C14_Witness ==
    /\ Analyzed
    /\ ReadP95 = 10000
    /\ ReadErrorRate = 100
    /\ ReadP99 = 19999
    /\ ReadThroughput = 1501
    /\ Len(actions) = 3
    /\ P95Warning = {1}
    /\ ErrorWarning = {2}
    /\ Combined = {3}

\* the place of an action's rule in analyze_metrics: p95, p99, error rate,
\* throughput, combined
RuleOf(action) ==
    CASE action.description \in {"Scale gateway replicas to handle increased load",
                                 "Increase gateway replicas"} -> 1
      [] action.description = "Scale backend replicas for tail latency" -> 2
      [] action.description \in {"Rollback to previous stable version",
                                 "Reduce load by lowering max_tokens"} -> 3
      [] action.description \in {"Emergency scaling - throughput critically low",
                                 "Investigate throughput degradation"} -> 4
      [] action.description = "Combined remediation: scale and rollback" -> 5

InRuleOrder(list) ==
    \A i, j \in 1 .. Len(list) : i < j => RuleOf(list[i]) < RuleOf(list[j])

ByPriority(list) ==
    \A i, j \in 1 .. Len(list) : i < j => list[i].priority <= list[j].priority

\* ordered by priority, equal priorities in rule-evaluation order
ByPriorityThenRule(list) ==
    \A i, j \in 1 .. Len(list) : i < j =>
        \/ list[i].priority < list[j].priority
        \/ list[i].priority = list[j].priority /\ RuleOf(list[i]) < RuleOf(list[j])

SameActions(list) ==
    /\ Len(list) = Len(actions)
    /\ {list[k] : k \in 1 .. Len(list)} = {actions[k] : k \in 1 .. Len(actions)}

\* the actions of the steps of a generated script, in step order
StepDescriptions(script) ==
    LET comments == SelectSeq(script, LAMBDA l : l.kind = "comment" /\ l.n > 0)
    IN  [k \in 1 .. Len(comments) |-> comments[k].text]

Descriptions(list) == [k \in 1 .. Len(list) |-> list[k].description]

\* C15 as stated: the action sequence analyze_metrics produces is ordered by
\* priority ascending.
C15_SortedByPriority == Analyzed => ByPriority(actions)

\* C15: analyze_metrics leaves the actions in rule-evaluation order (p95, p99,
\* error rate, throughput, combined), whatever their priorities; the report
\* and every generated script list the same actions ordered by priority
\* ascending, equal priorities in rule-evaluation order.
C15_RuleOrderSortedWhenRendered ==
    Analyzed =>
        /\ InRuleOrder(actions)
        /\ \A k \in 1 .. Len(report) :
              ~Falsy(w_results) =>
                  (SameActions(report[k]) /\ ByPriorityThenRule(report[k]))
        /\ \A file \in {script_file, tmp_script} : \A k \in 1 .. Len(file) :
              \E list \in {sorted_actions(actions)} :
                  /\ SameActions(list)
                  /\ ByPriorityThenRule(list)
                  /\ StepDescriptions(file[k]) = Descriptions(list)

\* a p95 warning (priority 2) precedes the p99 action (priority 1) in
\* self.actions; the report and the script list the p99 action first
C15_Witness ==
    /\ Analyzed
    /\ Len(actions) = 3
    /\ P95Warning = {1}
    /\ P99Critical = {2}
    /\ ThroughputWarning = {3}
    /\ Len(report) = 1
    /\ Descriptions(report[1]) = <<"Scale backend replicas for tail latency",
                                   "Increase gateway replicas",
                                   "Investigate throughput degradation">>
    /\ Len(script_file) = 1
    /\ StepDescriptions(script_file[1]) = Descriptions(report[1])

\* the run ended without the results having been loaded
LoadFailed == w_pc = "done" /\ w_results = <<>>

\* C16: the exit status of a run is 1 exactly when the results file could not
\* be loaded (missing or not JSON) or the plan holds at least one priority-1
\* action, which is when should_remediate() is true and the only case in
\* which a script is run and can fail; otherwise it is 0, in particular for a
\* plan with only priority-2 and priority-3 actions.
C16_ExitStatus ==
    w_pc = "done" =>
        LET critical == {k \in 1 .. Len(actions) : actions[k].priority = 1}
        IN  /\ w_exit \in {0, 1}
            /\ LoadFailed <=> (results_file = <<>> \/ IsCorrupt(results_file[1]))
            /\ w_exit = 1 <=> (LoadFailed \/ critical /= {})
            /\ should_remediate(actions) <=> critical /= {}
            /\ subprocess_runs /= <<>> => (critical /= {} /\ w_exit = 1)

\* a plan of a priority-2 and a priority-3 action ends with status 0
C16_Witness ==
    /\ w_pc = "done"
    /\ w_exit = 0
    /\ Len(actions) = 2
    /\ P95Warning = {1}
    /\ ThroughputWarning = {2}

\* C17 as stated: p95 >= 150 and error_rate >= 0.05 give exactly three
\* actions, all of priority 1, and should_remediate() is true.
C17_ExactlyThree ==
    (Analyzed /\ ReadP95 >= 15000 /\ ReadErrorRate >= 500) =>
        /\ Len(actions) = 3
        /\ \A k \in 1 .. 3 : actions[k].priority = 1
        /\ should_remediate(actions)

\* C17: for a summary with p95 >= 150, error_rate >= 0.05, p99 < 200 and
\* throughput > 15 (an absent throughput is read as 0) the plan is exactly
\* the critical p95 scale, the rollback and the combined action, all of
\* priority 1, and should_remediate() is true; a p99 >= 200 or a throughput
\* <= 15 adds its own action to these three.
C17_ThreeWhenOthersNominal ==
    (Analyzed /\ ReadP95 >= 15000 /\ ReadErrorRate >= 500) =>
        /\ P95Critical = {1}
        /\ \E e \in ErrorCritical : Combined = {Len(actions)} /\ 1 < e /\ e < Len(actions)
        /\ should_remediate(actions)
        /\ Len(actions) = 3 + Cardinality(P99Critical)
                            + Cardinality(ThroughputCritical \cup ThroughputWarning)
        /\ (ReadP99 < 20000 /\ ReadThroughput > 1500) =>
              /\ Len(actions) = 3
              /\ ErrorCritical = {2}
              /\ Combined = {3}
              /\ \A k \in 1 .. 3 : actions[k].priority = 1
        /\ (ReadP99 >= 20000 \/ ReadThroughput <= 1500) => Len(actions) > 3

\* p95 160 ms and error rate 0.06 with p99 below 200 and throughput above 15
C17_Witness ==
    /\ Analyzed
    /\ ReadP95 = 16000
    /\ ReadErrorRate = 600
    /\ ReadP99 = 19999
    /\ ReadThroughput = 1501
    /\ Len(actions) = 3
    /\ should_remediate(actions)

\* the action each rule reports for the values read, <<>> if none
ExpectedAction(rule) ==
    CASE rule = 1 -> IF ReadP95 >= 15000
                     THEN <<"Scale gateway replicas to handle increased load">>
                     ELSE IF ReadP95 >= 10000 THEN <<"Increase gateway replicas">>
                     ELSE <<>>
      [] rule = 2 -> IF ReadP99 >= 20000
                     THEN <<"Scale backend replicas for tail latency">> ELSE <<>>
      [] rule = 3 -> IF ReadErrorRate >= 500
                     THEN <<"Rollback to previous stable version">>
                     ELSE IF ReadErrorRate >= 100
                     THEN <<"Reduce load by lowering max_tokens">>
                     ELSE <<>>
      [] rule = 4 -> IF ReadThroughput <= 1000
                     THEN <<"Emergency scaling - throughput critically low">>
                     ELSE IF ReadThroughput <= 1500
                     THEN <<"Investigate throughput degradation">>
                     ELSE <<>>
      [] rule = 5 -> IF ReadP95 >= 10000 /\ ReadErrorRate >= 100
                     THEN <<"Combined remediation: scale and rollback">> ELSE <<>>

RuleFires(rule) == ExpectedAction(rule) /= <<>>

\* the plan the rules give for the values read, absent fields read as 0
ExpectedPlan ==
    LET fired == SelectSeq(<<1, 2, 3, 4, 5>>, RuleFires)
    IN  [k \in 1 .. Len(fired) |-> ExpectedAction(fired[k])[1]]

Nominal ==
    /\ ReadP95 < 10000
    /\ ReadP99 < 20000
    /\ ReadErrorRate < 100
    /\ ReadThroughput > 1500

\* C18: the plan is empty and should_remediate() is false exactly when every
\* metric is nominal (p95 < 100, p99 < 200, error_rate < 0.01, throughput >
\* 15); for every loaded summary, with a metric beyond a threshold or with a
\* metric field absent, the plan is the one the rules give for the values
\* read, an absent field being read as 0.
C18_NominalIffNoActions ==
    Analyzed =>
        /\ (actions = <<>> /\ ~should_remediate(actions)) <=> Nominal
        /\ Descriptions(actions) = ExpectedPlan

\* the steps of a script: its lines between the header and the footer
StepLines(script) == SubSeq(script, Len(ScriptHeader) + 1, Len(script) - Len(ScriptFooter))

\* the place in self.actions of the action with a description
PlaceOf(description) ==
    CHOOSE k \in 1 .. Len(actions) : actions[k].description = description

\* what C19 says of one written script
WellFormedScript(script) ==
    LET steps == StepLines(script)
        k == Len(actions)
        place == [i \in 1 .. k |-> PlaceOf(steps[4 * i - 3].text)]
    IN  /\ Len(script) = Len(ScriptHeader) + 4 * k + Len(ScriptFooter)
        /\ SubSeq(script, 1, Len(ScriptHeader)) = ScriptHeader
        /\ SubSeq(script, Len(script) - 1, Len(script)) = ScriptFooter
        /\ \A i \in 1 .. k :
              /\ steps[4 * i - 3] =
                    ScriptLine("comment", i, actions[place[i]].description)
              /\ steps[4 * i - 2] =
                    ScriptLine("echo", i, actions[place[i]].description)
              /\ steps[4 * i - 1] =
                    ScriptLine("command", i, actions[place[i]].command)
              /\ steps[4 * i] = ScriptLine("sleep", i, "sleep 2")
        /\ {place[i] : i \in 1 .. k} = 1 .. k
        /\ \A i, j \in 1 .. k : i < j =>
              \/ actions[place[i]].priority < actions[place[j]].priority
              \/ /\ actions[place[i]].priority = actions[place[j]].priority
                 /\ place[i] < place[j]

\* C19: a generated script holds, between a fixed header and a fixed footer,
\* exactly one step per action: the comment "Action i" with the action's
\* description, an echo of the description, the action's command and a pause
\* of 2 seconds, and nothing else (no branch, no loop); the steps are numbered
\* 1..k without gaps and follow the actions sorted by priority ascending,
\* equal priorities in their order in the plan.  For an empty plan no script
\* is written; with --generate-script and a non-empty plan one is.
C19_ScriptSteps ==
    /\ \A k \in 1 .. Len(script_file) : WellFormedScript(script_file[k])
    /\ \A k \in 1 .. Len(tmp_script) : WellFormedScript(tmp_script[k])
    /\ w_pc \in {"execute", "exit", "done"} =>
          Len(script_file) =
              IF w_results /= <<>> /\ generate_script_to /\ actions /= <<>>
              THEN 1 ELSE 0
    /\ actions = <<>> => (script_file = <<>> /\ tmp_script = <<>>)

\* five actions with priorities 2, 1, 2, 1, 1: the script runs the three
\* priority-1 steps first, then the two priority-2 steps, each group in plan
\* order
C19_Witness ==
    /\ Len(script_file) = 1
    /\ Descriptions(actions) = <<"Increase gateway replicas",
                                 "Scale backend replicas for tail latency",
                                 "Reduce load by lowering max_tokens",
                                 "Emergency scaling - throughput critically low",
                                 "Combined remediation: scale and rollback">>
    /\ StepDescriptions(script_file[1]) =
            <<"Scale backend replicas for tail latency",
              "Emergency scaling - throughput critically low",
              "Combined remediation: scale and rollback",
              "Increase gateway replicas",
              "Reduce load by lowering max_tokens">>
    /\ Len(script_file[1]) = 27

\* C20: subprocess.run is called, and /tmp/auto_remediation.sh written, only
\* in a run with --auto-execute, without --dry-run and with should_remediate()
\* true (a priority-1 action in the plan); it is called at most once and on
\* the script just written.
C20_ExecuteOnlyWhenRequested ==
    /\ Len(subprocess_runs) <= 1
    /\ Len(tmp_script) = Len(subprocess_runs)
    /\ subprocess_runs /= <<>> =>
          /\ auto_execute
          /\ ~dry_run
          /\ \E k \in 1 .. Len(actions) : actions[k].priority = 1
          /\ subprocess_runs[1] = tmp_script[1]

\* a run with --auto-execute and --dry-run and a critical plan ended without
\* running anything
C20_Witness ==
    /\ w_pc = "done"
    /\ auto_execute
    /\ dry_run
    /\ One(P95Critical)
    /\ w_exit = 1
    /\ subprocess_runs = <<>>
    /\ tmp_script = <<>>

\* ------------------------------------------------ repeated reduction claims
\* C21: two reductions of the same outcomes, requested total, duration and
\* concurrency give summaries that are identical in every field.
C21_IdenticalSummaries ==
    \A i, j \in 1 .. Len(summaries) : summaries[i] = summaries[j]

\* ------------------------------------------------ watcher object claims
\* C22: after any sequence of load_results, analyze_metrics and
\* generate_script calls on one RemediationWatcher the held action list is
\* empty or the plan of a single pass over the loaded summary: at most five
\* actions, at most one per rule, in rule order; every generated script has
\* one step for each action of that plan.
C22_SinglePassPlan ==
    w_pc = "object" =>
        /\ Len(actions) <= 5
        /\ InRuleOrder(actions)
        /\ actions /= <<>> => Descriptions(actions) = ExpectedPlan
        /\ \A k \in 1 .. Len(script_file) :
              /\ Len(StepDescriptions(script_file[k])) <= 5
              /\ StepDescriptions(script_file[k]) = Descriptions(sorted_actions(actions))

====
